---- MODULE Spec2Model ----
(***************************************************************************)
(* Model of the application pipeline of job-search-maestro:                *)
(*   job_search_orchestrator.py  JobSearchOrchestrator (pipeline store,    *)
(*                               research_company, _update_pipeline_status,*)
(*                               the apply / email commands of main)       *)
(*   cold_email_system.py        create_email_campaign (campaign document) *)
(*   pipeline_tracker.py         _generate_next_actions                    *)
(*                                                                         *)
(* A Python dict is an ordered mapping: it is modelled as a sequence of    *)
(* [key, data] entries in insertion order.  A str is a sequence of         *)
(* one-character strings where the code transforms it (company names),     *)
(* and a TLA+ string where it is only compared.  Dates are whole days.     *)
(***************************************************************************)
EXTENDS Integers, Sequences, FiniteSets, TLC

\* ---------------------------------------------------------------- bounds
\* first value of the clock (datetime.now(), in days)
StartDay == 8
\* last value of the clock
MaxDay == StartDay + 1
\* cap on stats.total_researched (the counter is unbounded in the code)
MaxResearched == 2

\* ------------------------------------------------------------- constants
\* config["quality_gates"]["min_priority_score"]
min_priority_score == 28
\* email follow-up age threshold of _generate_next_actions
FollowUpDays == 7
\* days added to research_date for the application due date
ApplicationDueDays == 2
\* length of the list _generate_next_actions returns
TopN == 20
\* the value of a date field that is absent or empty ("")
NoDate == 0 - 1
\* the value of a date field holding a string fromisoformat cannot parse
BadDate == 0 - 2

\* ----------------------------------------------------------------- inputs
\* company names given on the command line
Names ==
    { <<"A", "b">>, <<"a", " ", "b">>, <<"a", "_", "b">> }

\* the four qualification scores (role_appeal, company_fit,
\* growth_potential, likelihood): totals 25, 28
ScoreInputs == { <<7, 6, 6, 6>>, <<7, 7, 7, 7>> }

\* an EmailAttempt as the tracker reads it
EmailAttempt(d, r, f) ==
    [send_date |-> d, response_received |-> r, follow_up_sent |-> f]

\* values passed for the emails_sent field
EmailLists ==
    { <<>>,
      <<EmailAttempt(0, FALSE, FALSE), EmailAttempt(StartDay, FALSE, FALSE)>> }

\* ------------------------------------------------------------ str methods
\* str.lower() on one character
LowerChar(c) ==
    IF c = "A" THEN "a" ELSE IF c = "B" THEN "b" ELSE c

\* str.lower()
lower(s) == [i \in 1..Len(s) |-> LowerChar(s[i])]

\* str.replace(" ", "_")
replace_space(s) == [i \in 1..Len(s) |-> IF s[i] = " " THEN "_" ELSE s[i]]

\* ---------------------------------------------------------- dict methods
\* key in d
HasKey(d, k) == \E i \in 1..Len(d) : d[i].key = k

\* index of key k in d (k is present)
IndexOf(d, k) == CHOOSE i \in 1..Len(d) : d[i].key = k

\* d[k]
Lookup(d, k) == d[IndexOf(d, k)].data

\* d[k] = v : replaces in place, or appends a new key
Put(d, k, v) ==
    IF HasKey(d, k)
    THEN [d EXCEPT ![IndexOf(d, k)] = [key |-> k, data |-> v]]
    ELSE Append(d, [key |-> k, data |-> v])

\* sum(list)
RECURSIVE Sum(_)
Sum(s) == IF s = <<>> THEN 0 ELSE Head(s) + Sum(Tail(s))

\* --------------------------------------------------------------- pipeline
\* load_pipeline: the default pipeline structure
default_pipeline ==
    [companies |-> <<>>,
     stats |-> [total_researched |-> 0,
                total_applied |-> 0,
                response_rate |-> 0,
                interviews_scheduled |-> 0,
                offers_received |-> 0],
     next_actions |-> <<>>]

\* load_pipeline: the file's document if the file exists (file = <<doc>>),
\* the default structure if it does not (file = <<>>)
load_pipeline(file) ==
    IF file # <<>> THEN file[1] ELSE default_pipeline

\* save_pipeline: the file then holds the whole in-memory document
save_pipeline(p) == <<p>>

VARIABLES
    pipeline,   \* self.pipeline, the in-memory document
    disk,       \* self.pipeline_file: <<>> (no file) or <<document>>
    now,        \* datetime.now(), in days
    last        \* the last call and its arguments

vars == <<pipeline, disk, now, last>>

\* ------------------------------------------------- JobSearchOrchestrator
\* research_company: company_key
research_company_key(company_name) == replace_space(lower(company_name))

\* _update_pipeline_status: company_key
update_company_key(company_name) == lower(company_name)

\* _load_company_data: company_key
load_company_key(company_name) == lower(company_name)

\* _load_company_data: the stored record, or {} (here <<>>)
_load_company_data(p, company_name) ==
    IF HasKey(p.companies, load_company_key(company_name))
    THEN Lookup(p.companies, load_company_key(company_name))
    ELSE <<>>

\* the early return taken with the force_refresh flag inverted
already_researched_inverted(p, company_name, force_refresh) ==
    /\ force_refresh
    /\ HasKey(p.companies, replace_space(lower(company_name)))
    /\ Lookup(p.companies, replace_space(lower(company_name))).research_completed

\* research_company: the "already researched" early return
already_researched(p, company_name, force_refresh) ==
    /\ ~force_refresh
    /\ HasKey(p.companies, research_company_key(company_name))
    /\ Lookup(p.companies, research_company_key(company_name)).research_completed

\* research_company: the initial company record
company_data_init(company_name, t) ==
    [name |-> company_name,
     research_date |-> t,
     priority_score |-> 0,
     qualification_passed |-> FALSE,
     research_completed |-> FALSE,
     application_generated |-> FALSE,
     emails_sent |-> <<>>,
     interviews |-> <<>>,
     status |-> "researching"]

\* the qualification gate with the comparison made inclusive
below_threshold_inclusive(priority_score) == priority_score <= min_priority_score

\* research_company: the qualification gate
below_threshold(priority_score) == priority_score < min_priority_score

\* research_company carrying the emails_sent of the stored record over
research_company_merging(p, company_name, force_refresh, scores, t) ==
    LET company_key == research_company_key(company_name)
        company_data == [company_data_init(company_name, t)
                            EXCEPT !.priority_score = Sum(scores),
                                   !.emails_sent =
                                      IF HasKey(p.companies, company_key)
                                      THEN Lookup(p.companies, company_key).emails_sent
                                      ELSE <<>>]
    IN  IF already_researched(p, company_name, force_refresh)
        THEN p
        ELSE IF below_threshold(company_data.priority_score)
        THEN [p EXCEPT !.companies =
                Put(@, company_key,
                    [company_data EXCEPT !.status = "disqualified"])]
        ELSE [p EXCEPT !.companies =
                Put(@, company_key,
                    [company_data EXCEPT !.research_completed = TRUE,
                                         !.status = "researched",
                                         !.qualification_passed = TRUE]),
                       !.stats.total_researched = @ + 1]

\* research_company: the in-memory pipeline when the call returns
research_company(p, company_name, force_refresh, scores, t) ==
    LET company_key == research_company_key(company_name)
        company_data == [company_data_init(company_name, t)
                            EXCEPT !.priority_score = Sum(scores)]
    IN  IF already_researched(p, company_name, force_refresh)
        THEN p
        ELSE IF below_threshold(company_data.priority_score)
        THEN [p EXCEPT !.companies =
                Put(@, company_key,
                    [company_data EXCEPT !.status = "disqualified"])]
        ELSE [p EXCEPT !.companies =
                Put(@, company_key,
                    [company_data EXCEPT !.research_completed = TRUE,
                                         !.status = "researched",
                                         !.qualification_passed = TRUE]),
                       !.stats.total_researched = @ + 1]

\* the status that follows the field written, with responded for emails
status_after_update_responded(status, field, value) ==
    IF field = "application_generated" /\ value = TRUE
    THEN "applied"
    ELSE IF field = "emails_sent" /\ value # <<>>
    THEN "responded"
    ELSE status

\* _update_pipeline_status: the status that follows the field written
status_after_update(status, field, value) ==
    IF field = "application_generated" /\ value = TRUE
    THEN "applied"
    ELSE IF field = "emails_sent" /\ value # <<>>
    THEN "outreach_sent"
    ELSE status

\* _update_pipeline_status: the record after the field is written
updated_record(rec, field, value) ==
    [[rec EXCEPT ![field] = value]
        EXCEPT !.status = status_after_update(rec.status, field, value)]

\* _update_pipeline_status: the in-memory pipeline when the call returns
_update_pipeline_status(p, company_name, field, value) ==
    LET company_key == update_company_key(company_name)
    IN  IF HasKey(p.companies, company_key)
        THEN [p EXCEPT !.companies =
                Put(@, company_key,
                    updated_record(Lookup(@, company_key), field, value))]
        ELSE p

\* _update_pipeline_status: the file when the call returns (saved only
\* when the company key is present)
disk_after_update(p, file, company_name, field, value) ==
    IF HasKey(p.companies, update_company_key(company_name))
    THEN save_pipeline(_update_pipeline_status(p, company_name, field, value))
    ELSE file

\* research_company returning from the disqualified path without saving
disk_after_research_unsaved(p, file, company_name, force_refresh, scores, t) ==
    IF already_researched(p, company_name, force_refresh)
    THEN file
    ELSE IF below_threshold(Sum(scores))
    THEN file
    ELSE save_pipeline(research_company(p, company_name, force_refresh, scores, t))

\* research_company: the file when the call returns (saved on both
\* paths that store a record, untouched by the early return)
disk_after_research(p, file, company_name, force_refresh, scores, t) ==
    IF already_researched(p, company_name, force_refresh)
    THEN file
    ELSE save_pipeline(research_company(p, company_name, force_refresh, scores, t))

\* --------------------------------------------------------- ColdEmailSystem
\* _identify_target_contacts: the two prospects
target_contacts ==
    << [name |-> "Target Hiring Manager", title |-> "Head of Product",
        priority |-> "high"],
       [name |-> "VP Product", title |-> "VP Product",
        priority |-> "medium"] >>

\* _generate_personalized_email: one email of the campaign
email_data(contact) ==
    [contact |-> contact.name,
     template_used |-> "Senior Leadership Outreach",
     send_priority |-> contact.priority]

\* create_email_campaign: the campaign document returned
create_email_campaign(company_name) ==
    [company_name |-> company_name,
     target_contacts |-> target_contacts,
     email_campaigns |->
        [i \in 1..Len(target_contacts) |-> email_data(target_contacts[i])]]

\* dict.get(k, default)
Get(d, k, default) == IF k \in DOMAIN d THEN d[k] ELSE default

\* main, email command: the value passed for emails_sent
campaign_emails(campaign) == Get(campaign, "emails", <<>>)

\* --------------------------------------------------------- PipelineTracker
\* _load_pipeline_data: the tracker reads the same file
_load_pipeline_data(file) ==
    IF file # <<>> THEN file[1] ELSE default_pipeline

\* the due date without the offset in days
_calculate_due_date_no_offset(base_date, days, current_date) ==
    IF base_date = NoDate \/ base_date = BadDate
    THEN current_date
    ELSE base_date

\* _calculate_due_date: base date plus days, or now when there is no base
\* date or it does not parse (the except branch)
_calculate_due_date(base_date, days, current_date) ==
    IF base_date = NoDate \/ base_date = BadDate
    THEN current_date
    ELSE base_date + days

\* the research follow-up derived without looking at the status
research_follow_up_any_status(company_key, company_data, current_date) ==
    IF ~Get(company_data, "application_generated", FALSE)
    THEN << [priority |-> "high",
             action |-> "Generate application package",
             company |-> Get(company_data, "name", company_key),
             due_date |-> _calculate_due_date(
                              Get(company_data, "research_date", NoDate),
                              ApplicationDueDays, current_date)] >>
    ELSE <<>>

\* _generate_next_actions: the research follow-up of one company
research_follow_up(company_key, company_data, current_date) ==
    IF /\ Get(company_data, "status", "unknown") = "researched"
       /\ ~Get(company_data, "application_generated", FALSE)
    THEN << [priority |-> "high",
             action |-> "Generate application package",
             company |-> Get(company_data, "name", company_key),
             due_date |-> _calculate_due_date(
                              Get(company_data, "research_date", NoDate),
                              ApplicationDueDays, current_date)] >>
    ELSE <<>>

\* the follow-up of one email, due only after more than FollowUpDays days
email_follow_up_strict(company_key, company_data, email, current_date) ==
    LET send_date == Get(email, "send_date", NoDate)
        days_since == current_date - send_date
    IN  IF /\ send_date # NoDate
           /\ ~Get(email, "response_received", FALSE)
           /\ days_since > FollowUpDays
           /\ ~Get(email, "follow_up_sent", FALSE)
        THEN << [priority |-> "medium",
                 action |-> "Send follow-up email",
                 company |-> Get(company_data, "name", company_key),
                 due_date |-> send_date] >>
        ELSE <<>>

\* _generate_next_actions: the follow-up of one email
email_follow_up(company_key, company_data, email, current_date) ==
    LET send_date == Get(email, "send_date", NoDate)
        days_since == current_date - send_date
    IN  IF /\ send_date # NoDate
           /\ ~Get(email, "response_received", FALSE)
           /\ days_since >= FollowUpDays
           /\ ~Get(email, "follow_up_sent", FALSE)
        THEN << [priority |-> "medium",
                 action |-> "Send follow-up email",
                 company |-> Get(company_data, "name", company_key),
                 due_date |-> send_date] >>
        ELSE <<>>

\* _generate_next_actions: the loop over emails_sent
RECURSIVE email_follow_ups(_, _, _, _)
email_follow_ups(company_key, company_data, emails, current_date) ==
    IF emails = <<>>
    THEN <<>>
    ELSE email_follow_up(company_key, company_data, Head(emails), current_date)
         \o email_follow_ups(company_key, company_data, Tail(emails), current_date)

\* _generate_next_actions: the follow-up of one interview
interview_follow_up(company_key, company_data, interview) ==
    IF /\ Get(interview, "outcome", "") = "pending"
       /\ Get(interview, "date", NoDate) # NoDate
    THEN << [priority |-> "high",
             action |-> "Follow up on interview outcome",
             company |-> Get(company_data, "name", company_key),
             due_date |-> Get(interview, "date", NoDate)] >>
    ELSE <<>>

\* _generate_next_actions: the loop over interviews
RECURSIVE interview_follow_ups(_, _, _)
interview_follow_ups(company_key, company_data, interviews) ==
    IF interviews = <<>>
    THEN <<>>
    ELSE interview_follow_up(company_key, company_data, Head(interviews))
         \o interview_follow_ups(company_key, company_data, Tail(interviews))

\* _generate_next_actions: everything one company appends
company_actions(company_key, company_data, current_date) ==
    research_follow_up(company_key, company_data, current_date)
    \o email_follow_ups(company_key, company_data,
                        Get(company_data, "emails_sent", <<>>), current_date)
    \o interview_follow_ups(company_key, company_data,
                            Get(company_data, "interviews", <<>>))

\* _generate_next_actions: the loop over companies.items()
RECURSIVE all_actions(_, _)
all_actions(companies, current_date) ==
    IF companies = <<>>
    THEN <<>>
    ELSE company_actions(Head(companies).key, Head(companies).data, current_date)
         \o all_actions(Tail(companies), current_date)

\* _generate_next_actions: priority_order.get(priority, 0)
priority_order(priority) ==
    IF priority = "high" THEN 3
    ELSE IF priority = "medium" THEN 2
    ELSE IF priority = "low" THEN 1
    ELSE 0

\* the sort key of x is greater than or equal to that of y
key_greater_or_equal(x, y) ==
    \/ priority_order(x.priority) > priority_order(y.priority)
    \/ /\ priority_order(x.priority) = priority_order(y.priority)
       /\ x.due_date >= y.due_date

\* the sort key (priority_order, due_date) of x is greater than that of y
key_greater(x, y) ==
    \/ priority_order(x.priority) > priority_order(y.priority)
    \/ /\ priority_order(x.priority) = priority_order(y.priority)
       /\ x.due_date > y.due_date

\* list.sort(reverse=True), one insertion: x goes behind every item whose
\* key is greater than or equal to its own
RECURSIVE insert_sorted(_, _)
insert_sorted(x, s) ==
    IF s = <<>>
    THEN <<x>>
    ELSE IF key_greater(x, Head(s))
    THEN <<x>> \o s
    ELSE <<Head(s)>> \o insert_sorted(x, Tail(s))

\* list.sort(key=..., reverse=True): stable, descending
RECURSIVE sort_reverse(_)
sort_reverse(s) ==
    IF s = <<>>
    THEN <<>>
    ELSE insert_sorted(s[Len(s)], sort_reverse(SubSeq(s, 1, Len(s) - 1)))

\* next_actions[:20]
top_actions(s) == SubSeq(s, 1, IF Len(s) < TopN THEN Len(s) ELSE TopN)

\* _generate_next_actions
_generate_next_actions(pipeline_data, current_date) ==
    top_actions(sort_reverse(all_actions(pipeline_data.companies, current_date)))

\* _generate_next_actions: datetime.fromisoformat raises ValueError on the
\* send_date of an unanswered email (the call is outside any try)
next_actions_raises(pipeline_data) ==
    \E i \in 1..Len(pipeline_data.companies) :
        LET emails == Get(pipeline_data.companies[i].data, "emails_sent", <<>>)
        IN  \E j \in 1..Len(emails) :
                /\ Get(emails[j], "send_date", NoDate) = BadDate
                /\ ~Get(emails[j], "response_received", FALSE)

\* _generate_next_actions as a call: it raises, or returns the list
next_actions_result(pipeline_data, current_date) ==
    IF next_actions_raises(pipeline_data)
    THEN [raised |-> TRUE, value |-> <<>>]
    ELSE [raised |-> FALSE,
          value |-> _generate_next_actions(pipeline_data, current_date)]

\* _has_received_response
_has_received_response(company_data) ==
    \E j \in 1..Len(Get(company_data, "emails_sent", <<>>)) :
        Get(Get(company_data, "emails_sent", <<>>)[j], "response_received", FALSE)

\* _generate_success_metrics: total_emails += len(emails_sent)
RECURSIVE total_emails(_)
total_emails(companies) ==
    IF companies = <<>>
    THEN 0
    ELSE Len(Get(Head(companies).data, "emails_sent", <<>>))
         + total_emails(Tail(companies))

\* _generate_success_metrics: responses_received += 1 for a company for
\* which _has_received_response holds
RECURSIVE responses_received(_)
responses_received(companies) ==
    IF companies = <<>>
    THEN 0
    ELSE (IF _has_received_response(Head(companies).data) THEN 1 ELSE 0)
         + responses_received(Tail(companies))

\* _generate_success_metrics: interviews_scheduled += 1 for a company with
\* a non-empty interviews list
RECURSIVE interviews_scheduled(_)
interviews_scheduled(companies) ==
    IF companies = <<>>
    THEN 0
    ELSE (IF Get(Head(companies).data, "interviews", <<>>) # <<>> THEN 1 ELSE 0)
         + interviews_scheduled(Tail(companies))

\* _generate_success_metrics: total_applications += 1 for a company whose
\* status == "applied"
RECURSIVE total_applications(_)
total_applications(companies) ==
    IF companies = <<>>
    THEN 0
    ELSE (IF Get(Head(companies).data, "status", "") = "applied" THEN 1 ELSE 0)
         + total_applications(Tail(companies))

\* _generate_success_metrics: offers_received += 1 for a company with
\* offer_received
RECURSIVE offers_received(_)
offers_received(companies) ==
    IF companies = <<>>
    THEN 0
    ELSE (IF Get(Head(companies).data, "offer_received", FALSE) THEN 1 ELSE 0)
         + offers_received(Tail(companies))

\* the quotient with the zero denominator replaced by one
guarded_ratio_clamped(n, d) == [num |-> n, den |-> IF d > 0 THEN d ELSE 1]

\* _generate_success_metrics: n / d if d > 0 else 0, as a fraction
guarded_ratio(n, d) ==
    IF d > 0 THEN [num |-> n, den |-> d] ELSE [num |-> 0, den |-> 1]

\* round(x, 3) of a fraction, in thousandths (ties go to the even digit)
round3(x) ==
    LET q == (1000 * x.num) \div x.den
        r == (1000 * x.num) % x.den
    IN  IF 2 * r > x.den THEN q + 1
        ELSE IF 2 * r < x.den THEN q
        ELSE IF q % 2 = 0 THEN q ELSE q + 1

\* _generate_success_metrics (rates in thousandths)
_generate_success_metrics(pipeline_data) ==
    LET companies == pipeline_data.companies
    IN  [email_metrics |->
            [total_sent |-> total_emails(companies),
             responses_received |-> responses_received(companies),
             response_rate |->
                round3(guarded_ratio(responses_received(companies),
                                     total_emails(companies)))],
         application_metrics |->
            [total_applications |-> total_applications(companies),
             interviews_scheduled |-> interviews_scheduled(companies),
             interview_conversion_rate |->
                round3(guarded_ratio(interviews_scheduled(companies),
                                     total_applications(companies)))],
         offer_metrics |->
            [offers_received |-> offers_received(companies),
             offer_conversion_rate |->
                round3(guarded_ratio(offers_received(companies),
                                     interviews_scheduled(companies)))]]

\* today.weekday(): day 0 of the clock is a Monday
weekday(today) == today % 7

\* _generate_weekly_progress: a date inside [week_start, week_end]
in_week(date, today) ==
    /\ today - weekday(today) <= date
    /\ date <= today - weekday(today) + 6

\* _generate_weekly_progress: the date an interview was scheduled
schedule_date(interview) ==
    Get(interview, "scheduled_date", Get(interview, "date", NoDate))

\* _generate_weekly_progress: datetime.fromisoformat raises ValueError on a
\* research_date, send_date or interview date (none is inside a try)
weekly_progress_raises(pipeline_data) ==
    \E i \in 1..Len(pipeline_data.companies) :
        LET company_data == pipeline_data.companies[i].data
            emails == Get(company_data, "emails_sent", <<>>)
            interviews == Get(company_data, "interviews", <<>>)
        IN  \/ Get(company_data, "research_date", NoDate) = BadDate
            \/ \E j \in 1..Len(emails) :
                  Get(emails[j], "send_date", NoDate) = BadDate
            \/ \E j \in 1..Len(interviews) :
                  schedule_date(interviews[j]) = BadDate

\* number of items of a list of records whose date field lies in the week
DatesInWeek(items, field, today) ==
    Cardinality({ j \in 1..Len(items) :
                    /\ Get(items[j], field, NoDate) # NoDate
                    /\ in_week(Get(items[j], field, NoDate), today) })

\* _generate_weekly_progress: the counters after the loop over companies
RECURSIVE weekly_stats(_, _)
weekly_stats(companies, today) ==
    IF companies = <<>>
    THEN [companies_researched |-> 0, applications_submitted |-> 0,
          emails_sent |-> 0, responses_received |-> 0,
          interviews_scheduled |-> 0]
    ELSE LET company_data == Head(companies).data
             emails == Get(company_data, "emails_sent", <<>>)
             interviews == Get(company_data, "interviews", <<>>)
             rest == weekly_stats(Tail(companies), today)
         IN  [companies_researched |->
                 rest.companies_researched
                 + DatesInWeek(<<company_data>>, "research_date", today),
              applications_submitted |-> rest.applications_submitted,
              emails_sent |->
                 rest.emails_sent + DatesInWeek(emails, "send_date", today),
              responses_received |->
                 rest.responses_received
                 + Cardinality({ j \in 1..Len(emails) :
                        /\ Get(emails[j], "send_date", NoDate) # NoDate
                        /\ in_week(Get(emails[j], "send_date", NoDate), today)
                        /\ Get(emails[j], "response_received", FALSE) }),
              interviews_scheduled |->
                 rest.interviews_scheduled
                 + Cardinality({ j \in 1..Len(interviews) :
                        /\ schedule_date(interviews[j]) # NoDate
                        /\ in_week(schedule_date(interviews[j]), today) })]

\* self.targets["applications_per_week"]
applications_per_week == 5

\* _generate_weekly_progress (progress_vs_target as the fraction before
\* rounding; on_track is application_progress >= 0.8)
_generate_weekly_progress(pipeline_data, today) ==
    LET stats == weekly_stats(pipeline_data.companies, today)
    IN  [week_start |-> today - weekday(today),
         week_end |-> today - weekday(today) + 6,
         weekly_stats |-> stats,
         target_applications |-> applications_per_week,
         progress_vs_target |->
            [num |-> stats.applications_submitted,
             den |-> applications_per_week],
         on_track |->
            10 * stats.applications_submitted >= 8 * applications_per_week]

\* _generate_weekly_progress as a call: it raises, or returns the report
weekly_progress_result(pipeline_data, today) ==
    IF weekly_progress_raises(pipeline_data)
    THEN [raised |-> TRUE, value |-> <<>>]
    ELSE [raised |-> FALSE,
          value |-> <<_generate_weekly_progress(pipeline_data, today)>>]

\* generate_dashboard as a call: it raises when one of its sections does,
\* or returns the dashboard (the sections modelled here)
dashboard_result(pipeline_data, today) ==
    IF \/ next_actions_raises(pipeline_data)
       \/ weekly_progress_raises(pipeline_data)
    THEN [raised |-> TRUE, value |-> <<>>]
    ELSE [raised |-> FALSE,
          value |->
            <<[success_metrics |-> _generate_success_metrics(pipeline_data),
               next_actions |-> _generate_next_actions(pipeline_data, today),
               weekly_progress |->
                  _generate_weekly_progress(pipeline_data, today)]>>]

\* ---------------------------------------------------------------- actions
\* the record of a call: its name, its arguments, and whether the call
\* before it was the same call with the same arguments
NoCall == [op |-> "none", name |-> <<>>, force |-> FALSE, scores |-> <<>>,
           field |-> "", value |-> <<>>, repeat |-> FALSE]

\* the call c, marked as a repeat when it equals the previous call
Called(c) == [c EXCEPT !.repeat = ([last EXCEPT !.repeat = FALSE] = c)]

Init ==
    /\ disk = <<>>
    /\ pipeline = load_pipeline(disk)
    /\ now = StartDay
    /\ last = NoCall

\* orchestrator.research_company(name, force_refresh=force, scores=scores)
ResearchCompany(name, force, scores) ==
    /\ pipeline.stats.total_researched < MaxResearched
    /\ pipeline' = research_company(pipeline, name, force, scores, now)
    /\ disk' = disk_after_research(pipeline, disk, name, force, scores, now)
    /\ last' = Called([NoCall EXCEPT !.op = "research", !.name = name,
                                     !.force = force, !.scores = scores])
    /\ UNCHANGED now

\* orchestrator._update_pipeline_status(name, field, value)
UpdatePipelineStatus(name, field, value) ==
    /\ pipeline' = _update_pipeline_status(pipeline, name, field, value)
    /\ disk' = disk_after_update(pipeline, disk, name, field, value)
    /\ last' = Called([NoCall EXCEPT !.op = "update", !.name = name,
                                     !.field = field, !.value = value])
    /\ UNCHANGED now

\* main, apply command: a fresh orchestrator loads the file, the package is
\* generated, then application_generated is set
ApplyCommand(name) ==
    LET p == load_pipeline(disk)
    IN  /\ pipeline' = _update_pipeline_status(p, name, "application_generated", TRUE)
        /\ disk' = disk_after_update(p, disk, name, "application_generated", TRUE)
        /\ last' = Called([NoCall EXCEPT !.op = "apply", !.name = name,
                                         !.field = "application_generated",
                                         !.value = TRUE])
        /\ UNCHANGED now

\* main, email command: a fresh orchestrator loads the file, the campaign
\* is created, then emails_sent is set from the campaign
EmailCommand(name) ==
    LET p == load_pipeline(disk)
        result == create_email_campaign(name)
    IN  /\ pipeline' = _update_pipeline_status(p, name, "emails_sent",
                                               campaign_emails(result))
        /\ disk' = disk_after_update(p, disk, name, "emails_sent",
                                     campaign_emails(result))
        /\ last' = Called([NoCall EXCEPT !.op = "email", !.name = name,
                                         !.field = "emails_sent",
                                         !.value = campaign_emails(result)])
        /\ UNCHANGED now

\* time passes between calls
Tick ==
    /\ now < MaxDay
    /\ now' = now + 1
    /\ last' = [NoCall EXCEPT !.op = "tick"]
    /\ UNCHANGED <<pipeline, disk>>

Next ==
    \/ \E name \in Names, force \in BOOLEAN, scores \in ScoreInputs :
          ResearchCompany(name, force, scores)
    \/ \E name \in Names, value \in EmailLists :
          UpdatePipelineStatus(name, "emails_sent", value)
    \/ \E name \in Names : ApplyCommand(name)
    \/ \E name \in Names : EmailCommand(name)
    \/ Tick

Spec == Init /\ [][Next]_vars

\* ------------------------------------------- save_pipeline, step by step
\* Spec models completed calls, where the file holds a whole document.
\* SpecSave models the steps inside one save_pipeline call: there `disk` is
\* the content of the file, the sequence of chunks written so far, and
\* `last` is the position of the call with the document the file held
\* before it.

\* one chunk of the JSON text
Chunk(tok, v) == [tok |-> tok, v |-> v]

\* json.dump(self.pipeline, f): the chunks of the text, in writing order
json_dump(p) ==
    <<Chunk("{", <<>>)>>
    \o [i \in 1..Len(p.companies) |-> Chunk("company", <<p.companies[i]>>)]
    \o <<Chunk("stats", <<p.stats>>),
         Chunk("next_actions", <<p.next_actions>>),
         Chunk("}", <<>>)>>

\* the content is a whole JSON text (json.load does not raise)
json_well_formed(content) ==
    /\ Len(content) >= 4
    /\ content[1].tok = "{"
    /\ content[Len(content)].tok = "}"
    /\ content[Len(content) - 1].tok = "next_actions"
    /\ content[Len(content) - 2].tok = "stats"

\* json.load(f) of a whole JSON text
json_load(content) ==
    [companies |-> [i \in 1..(Len(content) - 4) |-> content[i + 1].v[1]],
     stats |-> content[Len(content) - 2].v[1],
     next_actions |-> content[Len(content) - 1].v[1]]

\* documents the orchestrator has saved or is about to save
SavedDocs ==
    LET d1 == research_company(default_pipeline, <<"A", "b">>, FALSE,
                               <<7, 7, 7, 7>>, StartDay)
        d2 == research_company(d1, <<"a", "_", "b">>, FALSE,
                               <<7, 6, 6, 6>>, StartDay)
        d3 == _update_pipeline_status(d2, <<"A", "b">>,
                                      "application_generated", TRUE)
        d4 == _update_pipeline_status(d3, <<"a", "_", "b">>, "emails_sent",
                                      <<EmailAttempt(0, FALSE, FALSE)>>)
    IN  {default_pipeline, d1, d2, d3, d4}

\* the position of a save_pipeline call
SaveCall(pc, old) == [op |-> "save", pc |-> pc, old |-> old]

SaveInit ==
    /\ pipeline \in SavedDocs
    /\ \E old \in SavedDocs :
          /\ disk = json_dump(old)
          /\ last = SaveCall("start", old)
    /\ now = StartDay

\* open(self.pipeline_file, 'w'): the file is truncated
SaveOpen ==
    /\ last.pc = "start"
    /\ disk' = <<>>
    /\ last' = [last EXCEPT !.pc = "writing"]
    /\ UNCHANGED <<pipeline, now>>

\* json.dump: the next chunk is written
SaveWrite ==
    /\ last.pc = "writing"
    /\ Len(disk) < Len(json_dump(pipeline))
    /\ disk' = Append(disk, json_dump(pipeline)[Len(disk) + 1])
    /\ UNCHANGED <<pipeline, now, last>>

\* the with block ends after the last chunk
SaveClose ==
    /\ last.pc = "writing"
    /\ Len(disk) = Len(json_dump(pipeline))
    /\ last' = [last EXCEPT !.pc = "done"]
    /\ UNCHANGED <<pipeline, disk, now>>

\* open or a write raises, or the process is interrupted: the call ends
\* and the file keeps what it holds
SaveFail ==
    /\ last.pc \in {"start", "writing"}
    /\ last' = [last EXCEPT !.pc = "failed"]
    /\ UNCHANGED <<pipeline, disk, now>>

SaveNext == SaveOpen \/ SaveWrite \/ SaveClose \/ SaveFail

SpecSave == SaveInit /\ [][SaveNext]_vars

\* ------------------------------------------------- the tracker's reports
\* SpecTracker and SpecDashboard model the read side: the pipeline file
\* holds a document drawn from a bounded set, and each action is one call
\* of a PipelineTracker report on it, whose outcome is kept in last.value.

\* the clock of the tracker runs over three days
TrackerDay == StartDay + 2
TrackerDays == TrackerDay..(TrackerDay + 2)

\* an InterviewEvent
InterviewEvent(date, outcome) ==
    [date |-> date, stage |-> "onsite", interviewer |-> "TBD",
     outcome |-> outcome]

\* an InterviewEvent stored without its outcome field
InterviewNoOutcome(date) ==
    [date |-> date, stage |-> "onsite", interviewer |-> "TBD"]

\* a stored company record
TrackerRecord(name, status, generated, emails, interviews, research_date) ==
    [company_data_init(name, research_date)
        EXCEPT !.priority_score = IF status = "disqualified" THEN 25 ELSE 28,
               !.qualification_passed = (status # "disqualified"),
               !.research_completed = (status # "disqualified"),
               !.application_generated = generated,
               !.emails_sent = emails,
               !.interviews = interviews,
               !.status = status]

\* a record with the offer_received field set
WithOffer(rec) ==
    [k \in DOMAIN rec \cup {"offer_received"} |->
        IF k = "offer_received" THEN TRUE ELSE rec[k]]

\* n copies of x
Repeat(x, n) == [i \in 1..n |-> x]

TrackerEmailLists ==
    { <<>>,
      <<EmailAttempt(TrackerDay - 10, FALSE, FALSE),
        EmailAttempt(TrackerDay - 5, FALSE, FALSE),
        EmailAttempt(TrackerDay - 1, FALSE, FALSE)>>,
      <<EmailAttempt(TrackerDay - 10, TRUE, FALSE),
        EmailAttempt(TrackerDay - 10, TRUE, FALSE)>>,
      <<EmailAttempt(TrackerDay - 10, FALSE, TRUE),
        EmailAttempt(TrackerDay - 7, FALSE, FALSE)>> }

TrackerInterviewLists ==
    { <<>>,
      <<InterviewEvent(TrackerDay - 1, "pending")>>,
      <<InterviewNoOutcome(TrackerDay - 1)>>,
      <<InterviewEvent(TrackerDay - 1, "advanced"),
        InterviewEvent(TrackerDay + 1, "pending")>> }

TrackerStatuses == {"researched", "applied", "interviewing", "disqualified"}

\* a record that alone derives more actions than the tracker returns
OverflowRecord ==
    TrackerRecord(<<"A", "b">>, "researched", FALSE,
                  Repeat(EmailAttempt(TrackerDay - 10, FALSE, FALSE), TopN + 1),
                  Repeat(InterviewEvent(TrackerDay - 1, "pending"), TopN + 1),
                  TrackerDay - 10)

\* records of the first company
FirstRecords ==
    { TrackerRecord(<<"A", "b">>, st, g, em, iv, StartDay) :
        st \in TrackerStatuses, g \in BOOLEAN,
        em \in TrackerEmailLists, iv \in TrackerInterviewLists }
    \cup {OverflowRecord}

\* records of the second company
SecondRecords ==
    { TrackerRecord(<<"a", "_", "b">>, "researched", FALSE, <<>>, <<>>, StartDay),
      TrackerRecord(<<"a", "_", "b">>, "researched", FALSE, <<>>, <<>>, NoDate),
      TrackerRecord(<<"a", "_", "b">>, "applied", TRUE, <<>>, <<>>, StartDay),
      TrackerRecord(<<"a", "_", "b">>, "interviewing", TRUE,
                    <<EmailAttempt(TrackerDay - 7, TRUE, FALSE)>>,
                    <<InterviewEvent(TrackerDay - 1, "pending")>>, StartDay),
      WithOffer(TrackerRecord(<<"a", "_", "b">>, "offered", TRUE,
                    <<EmailAttempt(TrackerDay - 7, TRUE, FALSE)>>,
                    <<InterviewEvent(TrackerDay - 1, "advanced")>>, StartDay)) }

\* records holding a date string that does not parse
BadDateRecords ==
    { TrackerRecord(<<"A", "b">>, "applied", TRUE,
                    <<EmailAttempt(0, r, FALSE), EmailAttempt(BadDate, r, FALSE)>>,
                    <<>>, StartDay) : r \in BOOLEAN }
    \cup
    { TrackerRecord(<<"A", "b">>, "researched", FALSE, <<>>, <<>>, BadDate),
      TrackerRecord(<<"A", "b">>, "interviewing", TRUE, <<>>,
                    <<InterviewEvent(BadDate, "pending")>>, StartDay) }

\* the companies dicts made of a first and a second record
CompaniesOf(first, second) ==
    {<<>>}
    \cup { <<[key |-> research_company_key(a.name), data |-> a]>> : a \in first }
    \cup { <<[key |-> research_company_key(a.name), data |-> a],
             [key |-> research_company_key(b.name), data |-> b]>> :
           a \in first, b \in second }
    \cup { <<[key |-> research_company_key(b.name), data |-> b],
             [key |-> research_company_key(a.name), data |-> a]>> :
           a \in first, b \in second }

\* the file holds a document with the given companies
TrackerInitOver(companies_set) ==
    /\ \E c \in companies_set :
          pipeline = [default_pipeline EXCEPT !.companies = c]
    /\ disk = save_pipeline(pipeline)
    /\ now \in TrackerDays
    /\ last = NoCall

\* the outcome of a report that cannot raise
Returned(v) == [raised |-> FALSE, value |-> v]

\* tracker._generate_next_actions()
TrackerNextActions ==
    /\ last' = [NoCall EXCEPT
                  !.op = "next_actions",
                  !.value = next_actions_result(_load_pipeline_data(disk), now)]
    /\ UNCHANGED <<pipeline, disk, now>>

\* tracker._generate_success_metrics()
TrackerSuccessMetrics ==
    /\ last' = [NoCall EXCEPT
                  !.op = "success_metrics",
                  !.value = Returned(_generate_success_metrics(
                                        _load_pipeline_data(disk)))]
    /\ UNCHANGED <<pipeline, disk, now>>

\* tracker._generate_weekly_progress()
TrackerWeeklyProgress ==
    /\ last' = [NoCall EXCEPT
                  !.op = "weekly_progress",
                  !.value = weekly_progress_result(_load_pipeline_data(disk), now)]
    /\ UNCHANGED <<pipeline, disk, now>>

\* tracker.generate_dashboard()
TrackerDashboard ==
    /\ last' = [NoCall EXCEPT
                  !.op = "dashboard",
                  !.value = dashboard_result(_load_pipeline_data(disk), now)]
    /\ UNCHANGED <<pipeline, disk, now>>

TrackerNext ==
    \/ TrackerNextActions
    \/ TrackerSuccessMetrics
    \/ TrackerWeeklyProgress
    \/ TrackerDashboard

\* records whose dates all parse
TrackerInit == TrackerInitOver(CompaniesOf(FirstRecords, SecondRecords))

SpecTracker == TrackerInit /\ [][TrackerNext]_vars

\* records of which some hold a date that does not parse
DashboardInit ==
    TrackerInitOver(CompaniesOf(BadDateRecords \cup {OverflowRecord},
                                SecondRecords))

SpecDashboard == DashboardInit /\ [][TrackerNext]_vars

\* ----------------------------------------------------------------- claims
\* position of a status in the progression researching < researched <
\* applied < outreach_sent < responded < interviewing < offered < hired
\* (0: not in the progression)
StatusRank(status) ==
    IF status = "researching" THEN 1
    ELSE IF status = "researched" THEN 2
    ELSE IF status = "applied" THEN 3
    ELSE IF status = "outreach_sent" THEN 4
    ELSE IF status = "responded" THEN 5
    ELSE IF status = "interviewing" THEN 6
    ELSE IF status = "offered" THEN 7
    ELSE IF status = "hired" THEN 8
    ELSE 0

\* the calls that go through _update_pipeline_status
UpdateOps == {"update", "apply", "email"}

\* the stored keys of a companies dict
KeysOf(d) == { d[i].key : i \in 1..Len(d) }

\* C1: without force_refresh, no research_company or _update_pipeline_status
\* call moves a company's stored status to an earlier state of the
\* progression.
C1_StatusNeverRegresses ==
    [][ ~(last'.op = "research" /\ last'.force) =>
          \A k \in KeysOf(pipeline.companies) :
             HasKey(pipeline'.companies, k) =>
                LET old == StatusRank(Lookup(pipeline.companies, k).status)
                    new == StatusRank(Lookup(pipeline'.companies, k).status)
                IN  (old > 0 /\ new > 0) => new >= old ]_vars

\* C2: a status of applied or later implies application_generated, and a
\* status of outreach_sent or later implies a non-empty emails_sent.
C2_StatusConsistentWithFields ==
    \A k \in KeysOf(pipeline.companies) :
        LET rec == Lookup(pipeline.companies, k)
        IN  /\ StatusRank(rec.status) >= StatusRank("applied")
                => rec.application_generated
            /\ StatusRank(rec.status) >= StatusRank("outreach_sent")
                => rec.emails_sent # <<>>

\* C3: when research_company actually runs, the stored record is
\* disqualified with research_completed false exactly when the total score
\* is below min_priority_score, and otherwise researched, completed and
\* qualified; a score equal to the threshold qualifies.
C3_QualificationGate ==
    [][ (last'.op = "research"
         /\ ~already_researched(pipeline, last'.name, last'.force)) =>
          LET k == research_company_key(last'.name)
              score == Sum(last'.scores)
          IN  /\ HasKey(pipeline'.companies, k)
              /\ LET rec == Lookup(pipeline'.companies, k)
                 IN  /\ rec.priority_score = score
                     /\ (rec.status = "disqualified" /\ ~rec.research_completed)
                            <=> score < min_priority_score
                     /\ score >= min_priority_score =>
                            /\ rec.status = "researched"
                            /\ rec.research_completed
                            /\ rec.qualification_passed ]_vars

\* C3 witness: research ran with a score equal to the threshold and the
\* record is researched
C3_Witness ==
    /\ last.op = "research"
    /\ Sum(last.scores) = min_priority_score
    /\ HasKey(pipeline.companies, research_company_key(last.name))
    /\ LET rec == Lookup(pipeline.companies, research_company_key(last.name))
       IN  /\ rec.status = "researched"
           /\ rec.priority_score = min_priority_score
           /\ rec.research_date = now

\* C4: the apply and email workflows leave a disqualified company
\* disqualified.
C4_DisqualifiedStaysDisqualified ==
    [][ last'.op \in UpdateOps =>
          \A k \in KeysOf(pipeline.companies) :
             Lookup(pipeline.companies, k).status = "disqualified" =>
                /\ HasKey(pipeline'.companies, k)
                /\ Lookup(pipeline'.companies, k).status = "disqualified" ]_vars

\* C5: a disqualified company contributes no high-priority and no
\* medium-priority item to the list _generate_next_actions returns.
C5_DisqualifiedHasNoActions ==
    LET pipeline_data == _load_pipeline_data(disk)
        next_actions == _generate_next_actions(pipeline_data, now)
    IN  \A k \in KeysOf(pipeline_data.companies) :
            LET rec == Lookup(pipeline_data.companies, k)
            IN  rec.status = "disqualified" =>
                    \A i \in 1..Len(next_actions) :
                        next_actions[i].company = rec.name =>
                            next_actions[i].priority \notin {"high", "medium"}

\* C5 witness: a company scored 25 is disqualified on file while the
\* tracker derives an action for another company
C5_Witness ==
    LET pipeline_data == _load_pipeline_data(disk)
    IN  /\ \E k \in KeysOf(pipeline_data.companies) :
              /\ Lookup(pipeline_data.companies, k).status = "disqualified"
              /\ Lookup(pipeline_data.companies, k).priority_score = 25
        /\ _generate_next_actions(pipeline_data, now) # <<>>

\* C6: an email campaign with at least one email, for a company whose
\* status is applied, stores a non-empty emails_sent and moves the status
\* to outreach_sent.
C6_CampaignMovesToOutreachSent ==
    [][ (/\ last'.op = "email"
         /\ Len(create_email_campaign(last'.name).email_campaigns) >= 1
         /\ HasKey(pipeline.companies, update_company_key(last'.name))
         /\ Lookup(pipeline.companies,
                   update_company_key(last'.name)).status = "applied") =>
          LET rec == Lookup(pipeline'.companies, update_company_key(last'.name))
          IN  /\ rec.emails_sent # <<>>
              /\ rec.status = "outreach_sent" ]_vars

\* C7: _update_pipeline_status for a company whose key is not stored
\* creates a record holding the given field and saves the pipeline.
C7_UpsertCreatesRecord ==
    [][ (/\ last'.op \in UpdateOps
         /\ ~HasKey(pipeline.companies, update_company_key(last'.name))) =>
          /\ HasKey(pipeline'.companies, update_company_key(last'.name))
          /\ Lookup(pipeline'.companies,
                    update_company_key(last'.name))[last'.field] = last'.value
          /\ disk' = <<pipeline'>> ]_vars

\* C8: an update or read issued under the name a record was researched
\* under addresses exactly that record.
C8_SameKeyForSameName ==
    \A i \in 1..Len(pipeline.companies) :
        LET name == pipeline.companies[i].data.name
        IN  /\ update_company_key(name) = pipeline.companies[i].key
            /\ _load_company_data(pipeline, name) = pipeline.companies[i].data

\* C9: repeating a call is idempotent: a second _update_pipeline_status
\* with the same company, field and value, and a second research_company
\* without force_refresh on a company whose research is completed, leave
\* the pipeline (companies and stats) as the first call left it.
C9_RepeatIsIdempotent ==
    [][ (/\ last'.repeat
         /\ \/ last'.op \in UpdateOps
            \/ /\ last'.op = "research"
               /\ ~last'.force
               /\ HasKey(pipeline.companies, research_company_key(last'.name))
               /\ Lookup(pipeline.companies,
                         research_company_key(last'.name)).research_completed)
        => pipeline' = pipeline ]_vars

\* C9 witness: the same call was made twice in a row on a stored company:
\* an update that set a status, or a research without force_refresh
C9_Witness ==
    /\ last.repeat
    /\ \/ /\ last.op = "update"
          /\ last.field = "emails_sent"
          /\ last.value # <<>>
          /\ HasKey(pipeline.companies, update_company_key(last.name))
          /\ Lookup(pipeline.companies,
                    update_company_key(last.name)).status = "outreach_sent"
       \/ /\ last.op = "research"
          /\ ~last.force
          /\ HasKey(pipeline.companies, research_company_key(last.name))
          /\ Lookup(pipeline.companies,
                    research_company_key(last.name)).status = "researched"

\* C10: after every completed call the persisted document equals the
\* in-memory pipeline.
C10_SavedAfterEveryMutation ==
    last.op # "none" => load_pipeline(disk) = pipeline

\* C10 witness: a call has stored a company and the file holds it
C10_Witness ==
    /\ last.op \in UpdateOps
    /\ disk # <<>>
    /\ HasKey(pipeline.companies, update_company_key(last.name))
    /\ Lookup(pipeline.companies,
              update_company_key(last.name)).application_generated

\* C11: a save has no partial-write window: the file always holds a whole
\* document, and after a failed or interrupted save it still holds the
\* document persisted before.
C11_NoPartialWrite ==
    /\ json_well_formed(disk)
    /\ last.pc = "failed" => json_load(disk) = last.old

\* ------------------------------------------------- completion and action
\* _calculate_completion_rate: the stages one status counts for
completed_stages(status) ==
    (IF status \in {"researched", "applied", "interviewing", "offered", "hired"}
     THEN 1 ELSE 0)
    + (IF status \in {"applied", "interviewing", "offered", "hired"}
       THEN 1 ELSE 0)
    + (IF status \in {"interviewing", "offered", "hired"} THEN 1 ELSE 0)
    + (IF status \in {"offered", "hired"} THEN 1 ELSE 0)
    + (IF status = "hired" THEN 1 ELSE 0)

\* _calculate_completion_rate: 5 stages per company
stages_per_company == 5

\* _calculate_completion_rate (in thousandths)
_calculate_completion_rate(pipeline_data) ==
    IF pipeline_data.companies = <<>>
    THEN 0
    ELSE round3(guarded_ratio(
            Sum([i \in 1..Len(pipeline_data.companies) |->
                    completed_stages(Get(pipeline_data.companies[i].data,
                                         "status", "unknown"))]),
            Len(pipeline_data.companies) * stages_per_company))

\* _determine_next_action: action_map.get(status, fallback)
_determine_next_action(company_data) ==
    LET status == Get(company_data, "status", "unknown")
    IN  CASE status = "researching" -> "Complete company research"
          [] status = "researched" -> "Generate application package"
          [] status = "applied" -> "Send cold email campaign"
          [] status = "email_sent" -> "Monitor for responses"
          [] status = "responded" -> "Schedule interview"
          [] status = "interviewing" -> "Follow up on interview outcome"
          [] status = "offered" -> "Negotiate and decide"
          [] status = "hired" -> "Complete - Success!"
          [] status = "rejected" -> "Archive and learn from feedback"
          [] OTHER -> "Determine status and next steps"

\* ------------------------------------------------- email performance
\* _generate_email_performance: the emails in the order the loops visit them
RECURSIVE emails_in_order(_)
emails_in_order(companies) ==
    IF companies = <<>>
    THEN <<>>
    ELSE Get(Head(companies).data, "emails_sent", <<>>)
         \o emails_in_order(Tail(companies))

\* _generate_email_performance: one email counted in template_performance
\* (a defaultdict: a new template is appended with sent 0, responses 0)
track_template(performance, email) ==
    LET template == Get(email, "template", "unknown")
        stats == IF HasKey(performance, template)
                 THEN Lookup(performance, template)
                 ELSE [sent |-> 0, responses |-> 0]
    IN  Put(performance, template,
            [sent |-> stats.sent + 1,
             responses |-> stats.responses
                           + (IF Get(email, "response_received", FALSE)
                              THEN 1 ELSE 0)])

\* _generate_email_performance: template_performance after the loops
RECURSIVE template_performance(_, _)
template_performance(performance, emails) ==
    IF emails = <<>>
    THEN performance
    ELSE template_performance(track_template(performance, Head(emails)),
                              Tail(emails))

\* _generate_email_performance: template_stats (rates in thousandths)
template_stats(performance) ==
    [i \in 1..Len(performance) |->
        [key |-> performance[i].key,
         data |-> [emails_sent |-> performance[i].data.sent,
                   responses |-> performance[i].data.responses,
                   response_rate |->
                      round3(guarded_ratio(performance[i].data.responses,
                                           performance[i].data.sent))]]]

\* max(template_stats.items(), key=response_rate)[0]: the first item with
\* the greatest rate, or "None" for no item
best_performing_template(stats) ==
    IF stats = <<>>
    THEN "None"
    ELSE stats[CHOOSE i \in 1..Len(stats) :
                  /\ \A j \in 1..Len(stats) :
                        stats[j].data.response_rate <= stats[i].data.response_rate
                  /\ \A j \in 1..(i - 1) :
                        stats[j].data.response_rate < stats[i].data.response_rate
              ].key

\* _generate_email_performance
_generate_email_performance(pipeline_data) ==
    LET emails == emails_in_order(pipeline_data.companies)
        stats == template_stats(template_performance(<<>>, emails))
    IN  [template_performance |-> stats,
         best_performing_template |-> best_performing_template(stats),
         total_campaigns |-> Len(emails)]

\* template names of the cold email system
TemplateNames == {"Product Manager - Growth Focus", "AI/Technology Focus"}

\* an email stored with its template under the given field name
EmailWithTemplate(field, template, response) ==
    [k \in {"send_date", "response_received", "follow_up_sent", field} |->
        IF k = "send_date" THEN TrackerDay - 1
        ELSE IF k = "response_received" THEN response
        ELSE IF k = "follow_up_sent" THEN FALSE
        ELSE template]

\* the emails of the files of this specification
TemplateEmails ==
    { EmailWithTemplate(f, t, r) :
        f \in {"template_used", "template"}, t \in TemplateNames,
        r \in BOOLEAN }

\* the emails_sent lists of the first company
TemplateEmailLists ==
    { <<a>> : a \in TemplateEmails }
    \cup { <<a, b>> : a, b \in TemplateEmails }

\* files of one or two companies with emails that carry a template
TemplateCompanies ==
    CompaniesOf(
        { TrackerRecord(<<"A", "b">>, "outreach_sent", TRUE, em, <<>>, StartDay) :
            em \in TemplateEmailLists },
        { TrackerRecord(<<"a", "_", "b">>, "outreach_sent", TRUE,
                        <<EmailWithTemplate("template_used",
                                            "AI/Technology Focus", TRUE)>>,
                        <<>>, StartDay) })

\* tracker._generate_email_performance()
TrackerEmailPerformance ==
    /\ last' = [NoCall EXCEPT
                  !.op = "email_performance",
                  !.value = Returned(_generate_email_performance(
                                        _load_pipeline_data(disk)))]
    /\ UNCHANGED <<pipeline, disk, now>>

EmailPerformanceInit == TrackerInitOver(TemplateCompanies)

EmailPerformanceNext == TrackerEmailPerformance \/ TrackerSuccessMetrics

SpecEmailPerformance == EmailPerformanceInit /\ [][EmailPerformanceNext]_vars

\* ------------------------------------------------- ApplicationGenerator
\* needle in haystack, for str
Contains(haystack, needle) ==
    \E i \in 0..(Len(haystack) - Len(needle)) :
        SubSeq(haystack, i + 1, i + Len(needle)) = needle

\* char.isdigit()
isdigit(char) ==
    char \in {"0", "1", "2", "3", "4", "5", "6", "7", "8", "9"}

\* s1 + s2 + ... for a list of str
RECURSIVE Concat(_)
Concat(parts) ==
    IF parts = <<>> THEN <<>> ELSE Head(parts) \o Concat(Tail(parts))

\* the fields of a case story of the generator, in dict order
StoryKeys == << <<"t", "i", "t", "l", "e">>, <<"r", "e", "s", "u", "l", "t", "s">> >>

\* story[key] for a key given as text
StoryField(story, key) ==
    IF key = <<"t", "i", "t", "l", "e">> THEN story.title ELSE story.results

\* json.dumps(story): {"title": "...", "results": "..."} (values without
\* characters that JSON escapes)
json_dumps(story) ==
    <<"{">>
    \o Concat([i \in 1..Len(StoryKeys) |->
                 (IF i = 1 THEN <<>> ELSE <<",", " ">>)
                 \o <<"\"">> \o StoryKeys[i] \o <<"\"", ":", " ", "\"">>
                 \o StoryField(story, StoryKeys[i]) \o <<"\"">>])
    \o <<"}">>

\* _get_role_specific_keywords
_get_role_specific_keywords(role_title) ==
    IF Contains(lower(role_title), <<"g", "r", "o", "w", "t", "h">>)
    THEN << <<"a", "c", "q", "u", "i", "s", "i", "t", "i", "o", "n">>,
            <<"c", "o", "n", "v", "e", "r", "s", "i", "o", "n">>,
            <<"r", "e", "t", "e", "n", "t", "i", "o", "n">>,
            <<"e", "n", "g", "a", "g", "e", "m", "e", "n", "t">>,
            <<"f", "u", "n", "n", "e", "l">>,
            <<"a", "/", "b", " ", "t", "e", "s", "t">> >>
    ELSE IF Contains(lower(role_title), <<"p", "r", "o", "d", "u", "c", "t">>)
    THEN << <<"r", "o", "a", "d", "m", "a", "p">>,
            <<"f", "e", "a", "t", "u", "r", "e">>,
            <<"u", "s", "e", "r", " ", "s", "t", "o", "r", "y">>,
            <<"s", "p", "r", "i", "n", "t">>,
            <<"s", "t", "a", "k", "e", "h", "o", "l", "d", "e", "r">>,
            <<"m", "e", "t", "r", "i", "c", "s">> >>
    ELSE IF Contains(lower(role_title), <<"s", "t", "r", "a", "t", "e", "g", "y">>)
    THEN << <<"s", "t", "r", "a", "t", "e", "g", "i", "c">>,
            <<"p", "l", "a", "n", "n", "i", "n", "g">>,
            <<"a", "n", "a", "l", "y", "s", "i", "s">>,
            <<"f", "r", "a", "m", "e", "w", "o", "r", "k">>,
            <<"c", "o", "m", "p", "e", "t", "i", "t", "i", "v", "e">> >>
    ELSE << <<"m", "a", "n", "a", "g", "e", "m", "e", "n", "t">>,
            <<"l", "e", "a", "d", "e", "r", "s", "h", "i", "p">>,
            <<"e", "x", "e", "c", "u", "t", "i", "o", "n">>,
            <<"r", "e", "s", "u", "l", "t", "s">>,
            <<"i", "m", "p", "r", "o", "v", "e", "m", "e", "n", "t">> >>

\* score += weight for every keyword of the list found in the text
match_score(keyword_list, story_text, weight) ==
    Sum([i \in 1..Len(keyword_list) |->
            IF Contains(story_text, keyword_list[i]) THEN weight ELSE 0])

\* the quantified outcomes bonus given for any digit in the whole story
digit_bonus_anywhere(story) ==
    IF \E i \in 1..Len(json_dumps(story)) : isdigit(json_dumps(story)[i])
    THEN 15 ELSE 0

\* _score_case_story_relevance: the quantified outcomes bonus (in tenths)
digit_bonus(story) ==
    IF \E i \in 1..Len(Get(story, "results", <<>>)) :
          isdigit(Get(story, "results", <<>>)[i])
    THEN 15 ELSE 0

\* _score_case_story_relevance (in tenths: 1.0 is 10, 2.0 is 20, 1.5 is 15)
_score_case_story_relevance(story, role_title, job_analysis) ==
    LET keywords == Get(job_analysis, "keywords", <<>>)
        story_text == lower(json_dumps(story))
    IN  Sum([g \in 1..Len(keywords) |->
                match_score(keywords[g].data, story_text, 10)])
        + match_score(_get_role_specific_keywords(role_title), story_text, 20)
        + digit_bonus(story)

\* the sort of scored_stories with a later equal score put first
insert_scored_unstable(x, sorted) ==
    LET before == { i \in 1..Len(sorted) : sorted[i].score > x.score }
    IN  SubSeq(sorted, 1, Cardinality(before))
        \o <<x>>
        \o SubSeq(sorted, Cardinality(before) + 1, Len(sorted))

\* scored_stories.sort(key=score, reverse=True), one insertion into a list
\* sorted so far: x goes behind every item whose score is at least its own
insert_scored(x, sorted) ==
    LET before == { i \in 1..Len(sorted) : sorted[i].score >= x.score }
    IN  SubSeq(sorted, 1, Cardinality(before))
        \o <<x>>
        \o SubSeq(sorted, Cardinality(before) + 1, Len(sorted))

\* scored_stories.sort(key=lambda x: x[0], reverse=True): stable
RECURSIVE sort_scored(_)
sort_scored(scored) ==
    IF scored = <<>>
    THEN <<>>
    ELSE insert_scored(scored[Len(scored)],
                       sort_scored(SubSeq(scored, 1, Len(scored) - 1)))

\* _select_relevant_case_stories: scored_stories before the sort
scored_stories(case_stories, role_title, job_analysis) ==
    [i \in 1..Len(case_stories) |->
        [score |-> _score_case_story_relevance(case_stories[i], role_title,
                                               job_analysis),
         story |-> case_stories[i]]]

\* _select_relevant_case_stories
_select_relevant_case_stories(case_stories, role_title, job_analysis, limit) ==
    LET sorted == sort_scored(scored_stories(case_stories, role_title,
                                             job_analysis))
    IN  [i \in 1..(IF Len(sorted) < limit THEN Len(sorted) ELSE limit) |->
            sorted[i].story]

\* --------------------------------------------- scoring, specification
\* case stories of the generator
GeneratorStories ==
    { [title |-> <<"A", "/", "B", " ", "t", "e", "s", "t", " ", "f", "u", "n", "n", "e", "l">>,
       results |-> <<"m", "e", "t", "r", "i", "c", "s", " ", "u", "p", " ", "5", "%">>],
      [title |-> <<"A", " ", "r", "o", "a", "d", "m", "a", "p">>,
       results |-> <<"m", "e", "t", "r", "i", "c", "s", " ", "u", "p">>],
      [title |-> <<"B", "2", "B", " ", "m", "a", "r", "k", "e", "t", "p", "l", "a", "c", "e">>,
       results |-> <<"s", "q", "l">>],
      [title |-> <<"s", "p", "r", "i", "n", "t">>,
       results |-> <<"m", "e", "t", "r", "i", "c", "s">>] }

\* self.case_stories: lists of up to MaxStories different stories
MaxStories == 3

RECURSIVE StoryLists(_, _)
StoryLists(stories, n) ==
    IF n = 0
    THEN {<<>>}
    ELSE LET shorter == StoryLists(stories, n - 1)
         IN  shorter \cup
             { Append(l, x) : l \in { k \in shorter : Len(k) = n - 1 },
                              x \in stories }

\* the lists without a story twice
DistinctStoryLists(stories, n) ==
    { l \in StoryLists(stories, n) :
        \A i, j \in 1..Len(l) : i # j => l[i] # l[j] }

\* role titles: growth, product, and one of neither kind
RoleTitles ==
    { <<"B", "2", "B", " ", "g", "r", "o", "w", "t", "h">>,
      <<"p", "r", "o", "d", "u", "c", "t">>,
      <<"B", "A">> }

\* results of _analyze_job_description: {} for no job description, or the
\* keywords found, by category
JobAnalyses ==
    { <<>>,
      [keywords |-> << [key |-> "technical_skills",
                        data |-> << <<"m", "e", "t", "r", "i", "c", "s">>,
                                    <<"s", "q", "l">> >>],
                       [key |-> "soft_skills",
                        data |-> << <<"l", "e", "a", "d", "e", "r", "s", "h", "i", "p">> >>] >>],
      [keywords |-> << [key |-> "experience_keywords",
                        data |-> << <<"m", "a", "r", "k", "e", "t", "p", "l", "a", "c", "e">> >>],
                       [key |-> "industry_terms",
                        data |-> << <<"m", "a", "r", "k", "e", "t", "p", "l", "a", "c", "e">> >>] >>] }

\* the limit argument
Limits == {1, 2, 5}

\* the arguments of a call of the generator
GeneratorInputs ==
    { [kind |-> "generator", case_stories |-> l, role_title |-> r,
       job_analysis |-> a, limit |-> n] :
        l \in DistinctStoryLists(GeneratorStories, MaxStories),
        r \in RoleTitles, a \in JobAnalyses, n \in Limits }

\* ------------------------------------------------- InterviewPrepSystem
\* _match_question_to_case_story: question_keywords
question_keywords ==
    << [key |-> "difficult decision",
        data |-> << <<"d", "e", "c", "i", "s", "i", "o", "n">>,
                   <<"c", "h", "o", "i", "c", "e">>,
                   <<"p", "r", "i", "o", "r", "i", "t", "i", "z", "a", "t", "i", "o", "n">> >>],
       [key |-> "influence without authority",
        data |-> << <<"i", "n", "f", "l", "u", "e", "n", "c", "e">>,
                   <<"s", "t", "a", "k", "e", "h", "o", "l", "d", "e", "r">>,
                   <<"a", "l", "i", "g", "n", "m", "e", "n", "t">> >>],
       [key |-> "pivot",
        data |-> << <<"p", "i", "v", "o", "t">>,
                   <<"c", "h", "a", "n", "g", "e">>,
                   <<"a", "d", "a", "p", "t", "a", "t", "i", "o", "n">> >>],
       [key |-> "disagreement",
        data |-> << <<"d", "i", "s", "a", "g", "r", "e", "e", "m", "e", "n", "t">>,
                   <<"c", "o", "n", "f", "l", "i", "c", "t">>,
                   <<"s", "t", "a", "k", "e", "h", "o", "l", "d", "e", "r">> >>],
       [key |-> "failed project",
        data |-> << <<"f", "a", "i", "l", "u", "r", "e">>,
                   <<"c", "h", "a", "l", "l", "e", "n", "g", "e">>,
                   <<"p", "r", "o", "b", "l", "e", "m">> >>],
       [key |-> "growth",
        data |-> << <<"g", "r", "o", "w", "t", "h">>,
                   <<"s", "c", "a", "l", "e">>,
                   <<"a", "c", "q", "u", "i", "s", "i", "t", "i", "o", "n">>,
                   <<"c", "o", "n", "v", "e", "r", "s", "i", "o", "n">> >>],
       [key |-> "prioritization",
        data |-> << <<"p", "r", "i", "o", "r", "i", "t", "i", "z", "e">>,
                   <<"r", "o", "a", "d", "m", "a", "p">>,
                   <<"f", "e", "a", "t", "u", "r", "e">> >>],
       [key |-> "data",
        data |-> << <<"d", "a", "t", "a">>,
                   <<"a", "n", "a", "l", "y", "t", "i", "c", "s">>,
                   <<"m", "e", "t", "r", "i", "c", "s">>,
                   <<"t", "e", "s", "t", "i", "n", "g">> >>],
       [key |-> "team leadership",
        data |-> << <<"l", "e", "a", "d", "e", "r", "s", "h", "i", "p">>,
                   <<"m", "a", "n", "a", "g", "e", "m", "e", "n", "t">>,
                   <<"t", "e", "a", "m">> >>] >>

\* _match_question_to_case_story: the text of a story
prep_story_text(story) ==
    lower(story.situation \o <<" ">> \o story.task \o <<" ">>
          \o story.action \o <<" ">> \o story.results)

\* _match_question_to_case_story: the score of one story
question_story_score(question, story, role_title) ==
    LET question_lower == lower(question)
        story_text == prep_story_text(story)
        role_lower == lower(role_title)
    IN  Sum([g \in 1..Len(question_keywords) |->
                Cardinality({ i \in 1..Len(question_keywords[g].data) :
                    /\ Contains(question_lower, question_keywords[g].data[i])
                    /\ Contains(story_text, question_keywords[g].data[i]) })])
        + (IF Get(story, "quantified_outcomes", <<>>) # <<>> THEN 1 ELSE 0)
        + (IF /\ Contains(role_lower, <<"g", "r", "o", "w", "t", "h">>)
              /\ Contains(story_text, <<"c", "o", "n", "v", "e", "r", "s", "i", "o", "n">>)
           THEN 2
           ELSE IF /\ Contains(role_lower, <<"s", "e", "n", "i", "o", "r">>)
                   /\ Get(story, "complexity", "") = "high"
           THEN 1 ELSE 0)

\* _match_question_to_case_story: the loop over the stories; best holds
\* best_score and best_story (<<>> for None)
RECURSIVE best_story_loop(_, _, _, _)
best_story_loop(question, case_stories, role_title, best) ==
    IF case_stories = <<>>
    THEN best
    ELSE LET score == question_story_score(question, Head(case_stories),
                                           role_title)
         IN  best_story_loop(question, Tail(case_stories), role_title,
                IF score > best.best_score
                THEN [best_score |-> score,
                      best_story |-> <<Head(case_stories)>>]
                ELSE best)

\* the match with best_score starting below every score
_match_question_to_case_story_below_zero(question, case_stories, role_title) ==
    best_story_loop(question, case_stories, role_title,
                    [best_score |-> 0 - 1, best_story |-> <<>>]).best_story

\* _match_question_to_case_story: the story returned, <<>> for None
_match_question_to_case_story(question, case_stories, role_title) ==
    best_story_loop(question, case_stories, role_title,
                    [best_score |-> 0, best_story |-> <<>>]).best_story

\* case stories of the interview preparation
PrepStory(action, results, quantified, complexity) ==
    [situation |-> <<>>, task |-> <<>>, action |-> action,
     results |-> results, quantified_outcomes |-> quantified,
     complexity |-> complexity]

PrepStories ==
    { PrepStory(<<"A", " ", "r", "o", "a", "d", "m", "a", "p">>, <<"g", "r", "o", "w", "t", "h">>, <<"1">>, "high"),
      PrepStory(<<"B", " ", "r", "o", "a", "d", "m", "a", "p">>, <<"c", "o", "n", "v", "e", "r", "s", "i", "o", "n">>, <<>>, "high"),
      PrepStory(<<"r", "o", "a", "d", "m", "a", "p">>, <<"s", "c", "a", "l", "e">>, <<>>, "medium"),
      PrepStory(<<"t", "e", "a", "m">>, <<"d", "o", "n", "e">>, <<>>, "medium") }

\* interview questions: about a roadmap, about growth, and about neither
Questions ==
    { <<"A", " ", "r", "o", "a", "d", "m", "a", "p", " ", "f", "e", "a", "t", "u", "r", "e">>,
      <<"g", "r", "o", "w", "t", "h", " ", "a", "t", " ", "s", "c", "a", "l", "e">>,
      <<"w", "h", "y", " ", "B">> }

\* role titles of the interview preparation
PrepRoleTitles ==
    { <<"B", "2", "B", " ", "g", "r", "o", "w", "t", "h">>,
      <<"s", "e", "n", "i", "o", "r">>,
      <<"B", "A">> }

\* the arguments of a call of the interview preparation
PrepInputs ==
    { [kind |-> "prep", question |-> q, case_stories |-> l, role_title |-> r] :
        q \in Questions, l \in DistinctStoryLists(PrepStories, MaxStories),
        r \in PrepRoleTitles }

\* ------------------------------------------ scoring, the specification
\* a call of the generator or of the interview preparation is about to be
\* made with the arguments held in last.value.input
ScoringInit ==
    /\ pipeline = load_pipeline(<<>>)
    /\ disk = <<>>
    /\ now = StartDay
    /\ \E input \in GeneratorInputs \cup PrepInputs :
          last = [NoCall EXCEPT !.op = "input",
                                !.value = [input |-> input, result |-> <<>>]]

\* generator._score_case_story_relevance(story, ...) for every story
ScoreStories ==
    /\ last.value.input.kind = "generator"
    /\ last' = [last EXCEPT
          !.op = "score",
          !.value.result =
             [i \in 1..Len(last.value.input.case_stories) |->
                _score_case_story_relevance(last.value.input.case_stories[i],
                                            last.value.input.role_title,
                                            last.value.input.job_analysis)]]
    /\ UNCHANGED <<pipeline, disk, now>>

\* generator._select_relevant_case_stories(role_title, job_analysis, limit)
SelectStories ==
    /\ last.value.input.kind = "generator"
    /\ last' = [last EXCEPT
          !.op = "select",
          !.value.result =
             _select_relevant_case_stories(last.value.input.case_stories,
                                           last.value.input.role_title,
                                           last.value.input.job_analysis,
                                           last.value.input.limit)]
    /\ UNCHANGED <<pipeline, disk, now>>

\* prep_system._match_question_to_case_story(question, case_stories, role)
MatchQuestion ==
    /\ last.value.input.kind = "prep"
    /\ last' = [last EXCEPT
          !.op = "match",
          !.value.result =
             _match_question_to_case_story(last.value.input.question,
                                           last.value.input.case_stories,
                                           last.value.input.role_title)]
    /\ UNCHANGED <<pipeline, disk, now>>

ScoringNext == ScoreStories \/ SelectStories \/ MatchQuestion

SpecScoring == ScoringInit /\ [][ScoringNext]_vars

\* ------------------------------------------- claims about the tracker
\* the document the tracker reads
TrackerData == _load_pipeline_data(disk)

\* the list the last _generate_next_actions call returned
ReturnedActions == last.value.value

\* _generate_next_actions has returned a list
NextActionsReturned == last.op = "next_actions" /\ ~last.value.raised

\* number of items of list with the given priority, action, company and
\* due date
CountActions(list, priority, action, company, due_date) ==
    Cardinality({ i \in 1..Len(list) :
                    /\ list[i].priority = priority
                    /\ list[i].action = action
                    /\ list[i].company = company
                    /\ list[i].due_date = due_date })

\* number of items of list with the given action
CountByAction(list, action) ==
    Cardinality({ i \in 1..Len(list) : list[i].action = action })

\* an email that is due a follow-up: unanswered, not followed up, sent at
\* least 7 whole days ago
NeedsFollowUp(email, today) ==
    /\ ~Get(email, "response_received", FALSE)
    /\ ~Get(email, "follow_up_sent", FALSE)
    /\ Get(email, "send_date", NoDate) # NoDate
    /\ today - Get(email, "send_date", NoDate) >= FollowUpDays

\* the emails of a record that are due a follow-up
FollowUpsDue(rec, today) ==
    { j \in 1..Len(Get(rec, "emails_sent", <<>>)) :
        NeedsFollowUp(Get(rec, "emails_sent", <<>>)[j], today) }

\* a company that is due an application package
NeedsApplication(rec) ==
    /\ Get(rec, "status", "unknown") = "researched"
    /\ ~Get(rec, "application_generated", FALSE)

\* the interviews of a record whose outcome is pending or not recorded
PendingInterviews(rec) ==
    { j \in 1..Len(Get(rec, "interviews", <<>>)) :
        /\ Get(Get(rec, "interviews", <<>>)[j], "outcome", "pending") = "pending"
        /\ Get(Get(rec, "interviews", <<>>)[j], "date", NoDate) # NoDate }

\* the interviews of a record whose stored outcome is pending
StoredPendingInterviews(rec) ==
    { j \in 1..Len(Get(rec, "interviews", <<>>)) :
        /\ Get(Get(rec, "interviews", <<>>)[j], "outcome", "") = "pending"
        /\ Get(Get(rec, "interviews", <<>>)[j], "date", NoDate) # NoDate }

\* number of actions that are due over the whole document
RECURSIVE ActionsDue(_, _)
ActionsDue(companies, today) ==
    IF companies = <<>>
    THEN 0
    ELSE (IF NeedsApplication(Head(companies).data) THEN 1 ELSE 0)
         + Cardinality(FollowUpsDue(Head(companies).data, today))
         + Cardinality(StoredPendingInterviews(Head(companies).data))
         + ActionsDue(Tail(companies), today)

\* the dates that occur in the document or in a list of actions
DatesOf(list) ==
    { list[i].due_date : i \in 1..Len(list) } \cup (0..(TrackerDay + 4))

\* list holds exactly one follow-up action, medium and due at send_date,
\* for each email that is due one, and no other follow-up action
FollowUpsExact(list, today) ==
    /\ \A i \in 1..Len(TrackerData.companies) :
          LET rec == TrackerData.companies[i].data
          IN  \A d \in DatesOf(list) :
                CountActions(list, "medium", "Send follow-up email", rec.name, d)
                = Cardinality({ j \in FollowUpsDue(rec, today) :
                                  rec.emails_sent[j].send_date = d })
    /\ CountByAction(list, "Send follow-up email")
       = Sum([i \in 1..Len(TrackerData.companies) |->
                Cardinality(FollowUpsDue(TrackerData.companies[i].data, today))])

\* list holds no follow-up action other than for an email that is due one
FollowUpsSound(list, today) ==
    \A k \in 1..Len(list) :
        list[k].action = "Send follow-up email" =>
            /\ list[k].priority = "medium"
            /\ \E i \in 1..Len(TrackerData.companies) :
                  LET rec == TrackerData.companies[i].data
                  IN  /\ rec.name = list[k].company
                      /\ CountActions(list, "medium", "Send follow-up email",
                                      rec.name, list[k].due_date)
                         <= Cardinality({ j \in FollowUpsDue(rec, today) :
                               rec.emails_sent[j].send_date = list[k].due_date })

\* C12 as stated: the returned list holds exactly one medium follow-up
\* action, due at send_date, for each unanswered, not followed-up email sent
\* at least 7 days ago, and none for any other email.
C12_FollowUpPerEmail ==
    NextActionsReturned => FollowUpsExact(ReturnedActions, now)

\* C12 amended: that holds when at most 20 actions are due; when more are
\* due the returned list still holds no follow-up for any other email.
C12_FollowUpPerEmailUpToTopN ==
    NextActionsReturned =>
        /\ ActionsDue(TrackerData.companies, now) <= TopN
              => FollowUpsExact(ReturnedActions, now)
        /\ FollowUpsSound(ReturnedActions, now)

\* C12 witness: emails sent 10, 5 and 1 days ago, all unanswered, and the
\* returned list holds one follow-up for the company, for the oldest email
C12_Witness ==
    /\ NextActionsReturned
    /\ \E i \in 1..Len(TrackerData.companies) :
          LET rec == TrackerData.companies[i].data
          IN  /\ rec.emails_sent = <<EmailAttempt(now - 10, FALSE, FALSE),
                                     EmailAttempt(now - 5, FALSE, FALSE),
                                     EmailAttempt(now - 1, FALSE, FALSE)>>
              /\ Cardinality({ k \in 1..Len(ReturnedActions) :
                    /\ ReturnedActions[k].action = "Send follow-up email"
                    /\ ReturnedActions[k].company = rec.name }) = 1
              /\ CountActions(ReturnedActions, "medium", "Send follow-up email",
                              rec.name, now - 10) = 1

\* the due date of the application package of a record
ApplicationDue(rec, today) ==
    IF Get(rec, "research_date", NoDate) = NoDate
    THEN today
    ELSE Get(rec, "research_date", NoDate) + 2

\* list holds no application action other than one per company that is due
\* one
ApplicationsSound(list, today) ==
    \A i \in 1..Len(TrackerData.companies) :
        LET rec == TrackerData.companies[i].data
            n == Cardinality({ k \in 1..Len(list) :
                    /\ list[k].action = "Generate application package"
                    /\ list[k].company = rec.name })
        IN  /\ ~NeedsApplication(rec) => n = 0
            /\ n <= 1

C14_PendingInterviewAction ==
    NextActionsReturned =>
        \A i \in 1..Len(TrackerData.companies) :
            LET rec == TrackerData.companies[i].data
            IN  \A j \in PendingInterviews(rec) :
                    CountActions(ReturnedActions, "high",
                                 "Follow up on interview outcome", rec.name,
                                 rec.interviews[j].date)
                    >= 1

\* the actions in the order the loop over the companies derives them
DerivedActions == all_actions(TrackerData.companies, now)

\* rank of a priority in the ordering of the returned list
PriorityRank(priority) ==
    CASE priority = "high" -> 3
      [] priority = "medium" -> 2
      [] priority = "low" -> 1
      [] OTHER -> 0

\* x sorts strictly before y: higher priority, or equal priority and later
\* due date
SortsBefore(x, y) ==
    \/ PriorityRank(x.priority) > PriorityRank(y.priority)
    \/ /\ PriorityRank(x.priority) = PriorityRank(y.priority)
       /\ x.due_date > y.due_date

\* x and y have the same priority and due date
SameSortKey(x, y) == ~SortsBefore(x, y) /\ ~SortsBefore(y, x)

\* the place of the i-th derived action in the stable sort of list
PlaceOf(list, i) ==
    1 + Cardinality({ j \in 1..Len(list) : SortsBefore(list[j], list[i]) })
      + Cardinality({ j \in 1..(i - 1) : SameSortKey(list[j], list[i]) })

\* C15: the returned list is the first 20 items of the stable sort of the
\* derived actions by priority, high before medium before low, then by due
\* date, later first; items with the same priority and due date keep the
\* order in which the iteration over the companies derived them.
C15_FirstTwentyOfStableSort ==
    NextActionsReturned =>
        /\ Len(ReturnedActions)
           = (IF Len(DerivedActions) < 20 THEN Len(DerivedActions) ELSE 20)
        /\ \A i \in 1..Len(DerivedActions) :
              PlaceOf(DerivedActions, i) <= 20 =>
                 ReturnedActions[PlaceOf(DerivedActions, i)] = DerivedActions[i]
        /\ \A i, j \in 1..Len(ReturnedActions) :
              i < j => ~SortsBefore(ReturnedActions[j], ReturnedActions[i])

\* C15 witness: two companies each contribute an item with the same priority
\* and due date, returned in iteration order, a high item is returned ahead
\* of a medium one, and a later one ahead of an earlier one of its priority
C15_Witness ==
    /\ NextActionsReturned
    /\ Len(TrackerData.companies) = 2
    /\ \E i, j \in 1..Len(ReturnedActions) :
          /\ i < j
          /\ SameSortKey(ReturnedActions[i], ReturnedActions[j])
          /\ ReturnedActions[i].company = TrackerData.companies[1].data.name
          /\ ReturnedActions[j].company = TrackerData.companies[2].data.name
    /\ \E i, j \in 1..Len(ReturnedActions) :
          /\ i < j
          /\ ReturnedActions[i].priority = "high"
          /\ ReturnedActions[j].priority = "medium"
    /\ \E i, j \in 1..Len(ReturnedActions) :
          /\ i < j
          /\ ReturnedActions[i].priority = ReturnedActions[j].priority
          /\ ReturnedActions[i].due_date > ReturnedActions[j].due_date

\* one of the three reports has been called
ReportCalled == last.op \in {"next_actions", "weekly_progress", "dashboard"}

\* C16: with a date field that does not parse somewhere in the file,
\* _generate_next_actions, _generate_weekly_progress and generate_dashboard
\* still return a report instead of raising.
C16_ReportsSurviveBadDate ==
    ReportCalled => ~last.value.raised

\* the status the fields of a record stand for, where the stored status
\* claims an application that application_generated denies
FieldDerivedStatus(rec) ==
    IF /\ Get(rec, "status", "unknown") \in {"applied", "outreach_sent", "interviewing"}
       /\ ~Get(rec, "application_generated", FALSE)
       /\ Get(rec, "research_completed", FALSE)
       /\ Get(rec, "qualification_passed", FALSE)
    THEN "researched"
    ELSE Get(rec, "status", "unknown")

\* the record with the status its fields stand for
WithFieldDerivedStatus(rec) ==
    [k \in DOMAIN rec \cup {"status"} |->
        IF k = "status" THEN FieldDerivedStatus(rec) ELSE rec[k]]

\* the document with every record's status replaced by the field-derived one
FieldDerivedData ==
    [TrackerData EXCEPT !.companies =
        [i \in 1..Len(TrackerData.companies) |->
            [key |-> TrackerData.companies[i].key,
             data |-> WithFieldDerivedStatus(TrackerData.companies[i].data)]]]

\* C17: for a record whose stored status disagrees with its fields, such as
\* status applied with application_generated false, the actions are those of
\* the field-derived status (researched).
C17_FieldDerivedStatusUsed ==
    NextActionsReturned =>
        ReturnedActions = _generate_next_actions(FieldDerivedData, now)

\* _generate_success_metrics has returned
MetricsReturned == last.op = "success_metrics" /\ ~last.value.raised

\* the metrics the last _generate_success_metrics call returned
ReturnedMetrics == last.value.value

\* the records of the file
RecordsOnFile ==
    [i \in 1..Len(TrackerData.companies) |-> TrackerData.companies[i].data]

\* number of EmailAttempts over all companies
EmailsSent ==
    Sum([i \in 1..Len(RecordsOnFile) |->
            Len(Get(RecordsOnFile[i], "emails_sent", <<>>))])

\* number of answered EmailAttempts over all companies
EmailsAnswered ==
    Sum([i \in 1..Len(RecordsOnFile) |->
            Cardinality({ j \in 1..Len(Get(RecordsOnFile[i], "emails_sent", <<>>)) :
                Get(Get(RecordsOnFile[i], "emails_sent", <<>>)[j],
                    "response_received", FALSE) })])

\* the companies with at least one interview
InterviewedCompanies ==
    { i \in 1..Len(RecordsOnFile) :
        Get(RecordsOnFile[i], "interviews", <<>>) # <<>> }

\* the companies whose status is applied
AppliedCompanies ==
    { i \in 1..Len(RecordsOnFile) :
        Get(RecordsOnFile[i], "status", "unknown") = "applied" }

\* the companies whose status is applied or a later state
AppliedOrLaterCompanies ==
    { i \in 1..Len(RecordsOnFile) :
        Get(RecordsOnFile[i], "status", "unknown") \in
            {"applied", "outreach_sent", "responded", "interviewing",
             "offered", "hired"} }

\* n / d rounded to three decimals, in thousandths
Thousandths(n, d) ==
    LET q == (1000 * n) \div d
        r == (1000 * n) % d
    IN  IF 2 * r > d \/ (2 * r = d /\ q % 2 = 1) THEN q + 1 ELSE q

\* C18: each of the three rates is 0, and the call returns, whenever its
\* denominator is 0: no email sent, no applied company, no company with an
\* interview; the empty pipeline included.
C18_ZeroDenominatorGivesZero ==
    last.op = "success_metrics" =>
        /\ ~last.value.raised
        /\ EmailsSent = 0 => ReturnedMetrics.email_metrics.response_rate = 0
        /\ AppliedCompanies = {} =>
              ReturnedMetrics.application_metrics.interview_conversion_rate = 0
        /\ AppliedOrLaterCompanies = {} =>
              ReturnedMetrics.application_metrics.interview_conversion_rate = 0
        /\ InterviewedCompanies = {} =>
              ReturnedMetrics.offer_metrics.offer_conversion_rate = 0

\* C18 witness: a company has an interview, no company is applied, and the
\* conversion rate returned is 0
C18_Witness ==
    /\ MetricsReturned
    /\ InterviewedCompanies # {}
    /\ AppliedCompanies = {}
    /\ EmailsSent = 0
    /\ ReturnedMetrics.application_metrics.interview_conversion_rate = 0
    /\ ReturnedMetrics.email_metrics.response_rate = 0

\* C19: email_response_rate is the number of answered EmailAttempts over
\* the number of EmailAttempts, both counted over all companies.
C19_ResponseRatePerEmail ==
    MetricsReturned /\ EmailsSent > 0 =>
        /\ ReturnedMetrics.email_metrics.responses_received = EmailsAnswered
        /\ ReturnedMetrics.email_metrics.response_rate
           = Thousandths(EmailsAnswered, EmailsSent)

\* C20: interview_conversion_rate is the number of companies with an
\* interview over the number of companies whose status is applied or later,
\* and is at most 1 when every company with an interview is among those.
C20_ConversionOverAppliedOrLater ==
    MetricsReturned /\ AppliedOrLaterCompanies # {} =>
        /\ ReturnedMetrics.application_metrics.interview_conversion_rate
           = Thousandths(Cardinality(InterviewedCompanies),
                         Cardinality(AppliedOrLaterCompanies))
        /\ InterviewedCompanies \subseteq AppliedOrLaterCompanies =>
              ReturnedMetrics.application_metrics.interview_conversion_rate
              <= 1000

\* _generate_weekly_progress has returned
WeeklyProgressReturned == last.op = "weekly_progress" /\ ~last.value.raised

\* the report the last _generate_weekly_progress call returned
ReturnedProgress == last.value.value[1]

\* the companies that were surely applied to in the week of today: the
\* application came after the research, and the research is in the week
AppliedThisWeek ==
    { i \in 1..Len(RecordsOnFile) :
        /\ Get(RecordsOnFile[i], "status", "unknown") = "applied"
        /\ Get(RecordsOnFile[i], "application_generated", FALSE)
        /\ Get(RecordsOnFile[i], "research_date", NoDate) # NoDate
        /\ now - (now % 7) <= Get(RecordsOnFile[i], "research_date", NoDate)
        /\ Get(RecordsOnFile[i], "research_date", NoDate) <= now }

\* C21: progress_vs_target is the number of applications made in the week
\* [week_start, week_end] over the weekly target, so it is at least the
\* number of companies applied to since a research of this week over the
\* target, and a week with 80% of the target is reported on_track.
C21_ProgressCountsApplications ==
    WeeklyProgressReturned =>
        /\ ReturnedProgress.progress_vs_target.num * 5
           >= Cardinality(AppliedThisWeek) * ReturnedProgress.progress_vs_target.den
        /\ 10 * Cardinality(AppliedThisWeek) >= 8 * 5
              => ReturnedProgress.on_track

\* _generate_email_performance has returned
EmailPerformanceReturned == last.op = "email_performance" /\ ~last.value.raised

\* the report the last _generate_email_performance call returned
ReturnedPerformance == last.value.value

\* the EmailAttempts of the file, in send order within company order
EmailsOnFile == emails_in_order(TrackerData.companies)

\* the template_used identifiers of the EmailAttempts
TemplatesUsed ==
    { Get(EmailsOnFile[i], "template_used", "unknown") :
        i \in 1..Len(EmailsOnFile) }

\* the EmailAttempts with template_used t
SentWith(t) ==
    { i \in 1..Len(EmailsOnFile) :
        Get(EmailsOnFile[i], "template_used", "unknown") = t }

\* the answered EmailAttempts with template_used t
AnsweredWith(t) ==
    { i \in SentWith(t) : Get(EmailsOnFile[i], "response_received", FALSE) }

\* responses over sent of the group of template_used t, in thousandths
GroupRate(t) ==
    Thousandths(Cardinality(AnsweredWith(t)), Cardinality(SentWith(t)))

\* the place at which the group of template_used t is first met
FirstMet(t) == CHOOSE i \in SentWith(t) : \A j \in SentWith(t) : i <= j

\* C22: template performance has one group per template_used identifier
\* of the EmailAttempts, with its number sent, its responses and their
\* ratio; best_performing_template is a group of maximal ratio, the first
\* met among those.
C22_GroupedByTemplateUsed ==
    EmailPerformanceReturned =>
        LET stats == ReturnedPerformance.template_performance
        IN  /\ { stats[i].key : i \in 1..Len(stats) } = TemplatesUsed
            /\ \A i \in 1..Len(stats) :
                  /\ stats[i].data.emails_sent
                     = Cardinality(SentWith(stats[i].key))
                  /\ stats[i].data.responses
                     = Cardinality(AnsweredWith(stats[i].key))
                  /\ stats[i].data.response_rate = GroupRate(stats[i].key)
            /\ TemplatesUsed # {} =>
                  LET best == ReturnedPerformance.best_performing_template
                  IN  /\ best \in TemplatesUsed
                      /\ \A t \in TemplatesUsed :
                            \/ GroupRate(t) < GroupRate(best)
                            \/ /\ GroupRate(t) = GroupRate(best)
                               /\ FirstMet(best) <= FirstMet(t)

\* new is the EmailAttempt old, but for flags that were set to true
SameAttempt(old, new) ==
    /\ DOMAIN new = DOMAIN old
    /\ \A k \in DOMAIN old :
          IF k \in {"response_received", "follow_up_sent"}
          THEN old[k] => new[k]
          ELSE new[k] = old[k]

\* the list new keeps every EmailAttempt of the list old, at its place
AttemptsKept(old, new) ==
    /\ Len(old) <= Len(new)
    /\ \A j \in 1..Len(old) : SameAttempt(old[j], new[j])

\* every record of the document old is in the document new, with every
\* EmailAttempt it had
EmailsKept(old, new) ==
    \A i \in 1..Len(old.companies) :
        /\ HasKey(new.companies, old.companies[i].key)
        /\ AttemptsKept(
              Get(old.companies[i].data, "emails_sent", <<>>),
              Get(Lookup(new.companies, old.companies[i].key),
                  "emails_sent", <<>>))

\* C23: no operation removes a recorded EmailAttempt, moves it or changes a
\* field of it other than setting response_received or follow_up_sent to
\* true; emails_sent only grows at its end.
C23_EmailsOnlyAppended ==
    [][EmailsKept(load_pipeline(disk), load_pipeline(disk'))]_vars

\* C27: when research_company re-runs for a company that has a record
\* (force_refresh, or research_completed false), the record is replaced
\* wholesale: emails_sent and interviews are empty and application_generated
\* is false afterwards, whatever they were.
C27_ReResearchReplacesRecord ==
    [][ (/\ last'.op = "research"
         /\ HasKey(pipeline.companies, research_company_key(last'.name))
         /\ ~already_researched(pipeline, last'.name, last'.force)) =>
          LET rec == Lookup(pipeline'.companies,
                            research_company_key(last'.name))
          IN  /\ rec.emails_sent = <<>>
              /\ rec.interviews = <<>>
              /\ ~rec.application_generated
              /\ Lookup(load_pipeline(disk').companies,
                        research_company_key(last'.name)) = rec ]_vars

\* C27 witness: a forced research ran on a company that was researched
\* before (it is counted twice), and its record holds no email and no
\* application
C27_Witness ==
    /\ last.op = "research"
    /\ last.force
    /\ Len(pipeline.companies) = 1
    /\ pipeline.stats.total_researched = 2
    /\ pipeline.companies[1].key = research_company_key(last.name)
    /\ pipeline.companies[1].data.emails_sent = <<>>
    /\ ~pipeline.companies[1].data.application_generated

\* C28: every stored company status is one of disqualified, researched,
\* applied, outreach_sent, in memory and on file.
C28_StoredStatuses ==
    /\ \A i \in 1..Len(pipeline.companies) :
          pipeline.companies[i].data.status
             \in {"disqualified", "researched", "applied", "outreach_sent"}
    /\ \A i \in 1..Len(load_pipeline(disk).companies) :
          load_pipeline(disk).companies[i].data.status
             \in {"disqualified", "researched", "applied", "outreach_sent"}

\* C28 witness: an update has stored outreach_sent for one company while
\* another one is stored with a different status
C28_Witness ==
    /\ last.op \in UpdateOps
    /\ \E i, j \in 1..Len(pipeline.companies) :
          /\ pipeline.companies[i].data.status = "outreach_sent"
          /\ pipeline.companies[j].data.status
                \in {"disqualified", "researched", "applied"}

\* the number of stored companies whose research is completed
ResearchCompleted(p) ==
    Cardinality({ i \in 1..Len(p.companies) :
                    p.companies[i].data.research_completed })

\* C30: stats.total_researched is the number of stored companies whose
\* research_completed is true, after any sequence of operations.
C30_TotalResearchedCountsCompleted ==
    pipeline.stats.total_researched = ResearchCompleted(pipeline)

\* the company stored under key k has advanced one or two steps along
\* researched, applied, outreach_sent between the documents old and new
Advanced(old, new, k) ==
    /\ HasKey(old.companies, k)
    /\ HasKey(new.companies, k)
    /\ Lookup(old.companies, k).status \in {"researched", "applied"}
    /\ Lookup(new.companies, k).status \in {"applied", "outreach_sent"}
    /\ StatusRank(Lookup(new.companies, k).status)
       > StatusRank(Lookup(old.companies, k).status)

\* C29: when a company advances along researched, applied, outreach_sent,
\* the tracker's completion rate does not decrease and its next action for
\* the company is a status-specific one, not the fallback.
C29_TrackerFollowsOrchestrator ==
    [][ \A k \in KeysOf(load_pipeline(disk).companies) :
          Advanced(load_pipeline(disk), load_pipeline(disk'), k) =>
             /\ _calculate_completion_rate(_load_pipeline_data(disk'))
                >= _calculate_completion_rate(_load_pipeline_data(disk))
             /\ _determine_next_action(
                   Lookup(_load_pipeline_data(disk').companies, k))
                # "Determine status and next steps" ]_vars

\* ------------------------------------------- claims about the scoring
\* the arguments and the result of the last call
ScoringInput == last.value.input

ScoringResult == last.value.result

\* keyword occurs in text, case ignored
OccursIn(keyword, text) == Contains(lower(text), lower(keyword))

\* text holds a digit
HasDigit(text) == \E i \in 1..Len(text) : isdigit(text[i])

\* number of job-analysis keywords, over all groups, that occur in the text
\* of the story
JobKeywordHits(story, job_analysis) ==
    LET groups == Get(job_analysis, "keywords", <<>>)
    IN  Sum([g \in 1..Len(groups) |->
                Cardinality({ i \in 1..Len(groups[g].data) :
                    OccursIn(groups[g].data[i], json_dumps(story)) })])

\* number of role-specific keywords that occur in the text of the story
RoleKeywordHits(story, role_title) ==
    Cardinality({ i \in 1..Len(_get_role_specific_keywords(role_title)) :
        OccursIn(_get_role_specific_keywords(role_title)[i],
                 json_dumps(story)) })

\* C24: the score of a case story is 1.0 for every job-analysis keyword
\* that occurs in the story text, case ignored, plus 2.0 for every
\* role-specific keyword that occurs in it, plus 1.5 if the results text
\* holds a digit (scores in tenths); of two stories with the same keyword
\* occurrences the one with a digit in its results scores strictly higher.
C24_CaseStoryScore ==
    last.op = "score" =>
        LET stories == ScoringInput.case_stories
            hits(i) == JobKeywordHits(stories[i], ScoringInput.job_analysis)
            role_hits(i) == RoleKeywordHits(stories[i], ScoringInput.role_title)
        IN  /\ \A i \in 1..Len(stories) :
                  ScoringResult[i]
                  = 10 * hits(i) + 20 * role_hits(i)
                    + (IF HasDigit(stories[i].results) THEN 15 ELSE 0)
            /\ \A i, j \in 1..Len(stories) :
                  (/\ hits(i) = hits(j)
                   /\ role_hits(i) = role_hits(j)
                   /\ HasDigit(stories[i].results)
                   /\ ~HasDigit(stories[j].results))
                  => ScoringResult[i] > ScoringResult[j]

\* C24 witness: a scored story matches a job-analysis keyword and a role
\* keyword and has a digit in its results, and another one has a digit in
\* its title only
C24_Witness ==
    /\ last.op = "score"
    /\ \E i, j \in 1..Len(ScoringInput.case_stories) :
          LET a == ScoringInput.case_stories[i]
              b == ScoringInput.case_stories[j]
          IN  /\ JobKeywordHits(a, ScoringInput.job_analysis) = 1
              /\ RoleKeywordHits(a, ScoringInput.role_title) = 2
              /\ HasDigit(a.results)
              /\ ScoringResult[i] = 65
              /\ HasDigit(b.title)
              /\ ~HasDigit(b.results)
              /\ ScoringResult[j] = 10 * JobKeywordHits(b, ScoringInput.job_analysis)

\* the place of the i-th item in the stable descending order of scores
RankOf(scores, i) ==
    1 + Cardinality({ j \in 1..Len(scores) : scores[j] > scores[i] })
      + Cardinality({ j \in 1..(i - 1) : scores[j] = scores[i] })

\* list is the first limit items of stories in the stable descending order
\* of scores
IsTopByScore(list, stories, scores, limit) ==
    /\ Len(list) = (IF Len(stories) < limit THEN Len(stories) ELSE limit)
    /\ \A i \in 1..Len(stories) :
          RankOf(scores, i) <= limit => list[RankOf(scores, i)] = stories[i]

\* the scores of the generator for the stories of the call
GeneratorScores ==
    [i \in 1..Len(ScoringInput.case_stories) |->
        _score_case_story_relevance(ScoringInput.case_stories[i],
                                    ScoringInput.role_title,
                                    ScoringInput.job_analysis)]

\* the scores of the interview preparation for the stories of the call
QuestionScores ==
    [i \in 1..Len(ScoringInput.case_stories) |->
        question_story_score(ScoringInput.question,
                             ScoringInput.case_stories[i],
                             ScoringInput.role_title)]

\* the earliest story among those with the greatest score
EarliestBest(stories, scores) ==
    stories[CHOOSE i \in 1..Len(stories) : RankOf(scores, i) = 1]

\* the selection follows the ranking of the scores
SelectionRanked ==
    last.op = "select" =>
        IsTopByScore(ScoringResult, ScoringInput.case_stories,
                     GeneratorScores, ScoringInput.limit)

\* C25 as stated: _select_relevant_case_stories returns at most limit
\* stories by descending score, equal scores in their original order, and
\* _match_question_to_case_story returns the earliest story among those
\* with the greatest score.
C25_RankingTiesByInsertion ==
    /\ SelectionRanked
    /\ (last.op = "match" /\ ScoringInput.case_stories # <<>>) =>
          ScoringResult
          = <<EarliestBest(ScoringInput.case_stories, QuestionScores)>>

\* C25 amended: the match returns the earliest story among those with the
\* greatest score when that score is positive, and no story when every
\* story scores 0 or there is none.
C25_RankingTiesByInsertionOrNone ==
    /\ SelectionRanked
    /\ last.op = "match" =>
          IF \E i \in 1..Len(QuestionScores) : QuestionScores[i] > 0
          THEN ScoringResult
               = <<EarliestBest(ScoringInput.case_stories, QuestionScores)>>
          ELSE ScoringResult = <<>>

\* C25 witness: two stories share the greatest, positive score and the
\* match returned the earlier one
C25_Witness ==
    /\ last.op = "match"
    /\ \E i, j \in 1..Len(QuestionScores) :
          /\ i < j
          /\ QuestionScores[i] = QuestionScores[j]
          /\ QuestionScores[i] > 0
          /\ \A k \in 1..Len(QuestionScores) :
                QuestionScores[k] <= QuestionScores[i]
          /\ ScoringResult = <<ScoringInput.case_stories[i]>>

\* the job analysis of the call holds no keyword group
EmptyQuery == Get(ScoringInput.job_analysis, "keywords", <<>>) = <<>>

\* no keyword of the question types occurs in the question of the call
NoQuestionKeyword ==
    \A g \in 1..Len(question_keywords) :
        \A i \in 1..Len(question_keywords[g].data) :
            ~OccursIn(question_keywords[g].data[i], ScoringInput.question)

\* the first n stories of the call, in their original order
OriginalOrder(n) ==
    SubSeq(ScoringInput.case_stories, 1,
           IF Len(ScoringInput.case_stories) < n
           THEN Len(ScoringInput.case_stories) ELSE n)

\* C26 as stated: with an empty query every candidate scores 0 and the
\* selection falls back to the candidates' original order.
C26_EmptyQueryScoresZero ==
    /\ (last.op = "score" /\ EmptyQuery) =>
          \A i \in 1..Len(ScoringResult) : ScoringResult[i] = 0
    /\ (last.op = "select" /\ EmptyQuery) =>
          ScoringResult = OriginalOrder(ScoringInput.limit)
    /\ (last.op = "match" /\ NoQuestionKeyword) =>
          ScoringResult = OriginalOrder(1)

\* the part of a generator score that does not come from the job analysis
BonusScore(story, role_title) ==
    20 * RoleKeywordHits(story, role_title)
    + (IF HasDigit(story.results) THEN 15 ELSE 0)

\* the part of a question score that does not come from the question
QuestionBonus(story, role_title) ==
    (IF Get(story, "quantified_outcomes", <<>>) # <<>> THEN 1 ELSE 0)
    + (IF /\ OccursIn(<<"g", "r", "o", "w", "t", "h">>, role_title)
          /\ OccursIn(<<"c", "o", "n", "v", "e", "r", "s", "i", "o", "n">>,
                      prep_story_text(story))
       THEN 2
       ELSE IF /\ OccursIn(<<"s", "e", "n", "i", "o", "r">>, role_title)
               /\ Get(story, "complexity", "") = "high"
       THEN 1 ELSE 0)

\* C26 amended: with an empty query every candidate scores its bonuses
\* only (role keywords and a digit in the results for the generator,
\* quantified outcomes and the role bonus for the interview preparation);
\* the generator's selection is in the original order when these are all
\* equal, and the match returns no story when they are all 0.
C26_EmptyQueryScoresBonusOnly ==
    /\ (last.op = "score" /\ EmptyQuery) =>
          \A i \in 1..Len(ScoringResult) :
             ScoringResult[i] = BonusScore(ScoringInput.case_stories[i],
                                           ScoringInput.role_title)
    /\ (/\ last.op = "select"
        /\ EmptyQuery
        /\ \A i, j \in 1..Len(ScoringInput.case_stories) :
              BonusScore(ScoringInput.case_stories[i], ScoringInput.role_title)
              = BonusScore(ScoringInput.case_stories[j], ScoringInput.role_title))
       => ScoringResult = OriginalOrder(ScoringInput.limit)
    /\ (last.op = "match" /\ NoQuestionKeyword) =>
          /\ \A i \in 1..Len(QuestionScores) :
                QuestionScores[i] = QuestionBonus(ScoringInput.case_stories[i],
                                                  ScoringInput.role_title)
          /\ (\A i \in 1..Len(QuestionScores) :
                 QuestionBonus(ScoringInput.case_stories[i],
                               ScoringInput.role_title) = 0)
             => ScoringResult = <<>>

\* C26 witness: a question without any keyword was matched against two or
\* more stories without bonus and no story was returned
C26_Witness ==
    /\ last.op = "match"
    /\ NoQuestionKeyword
    /\ Len(ScoringInput.case_stories) >= 2
    /\ \A i \in 1..Len(ScoringInput.case_stories) :
          QuestionBonus(ScoringInput.case_stories[i],
                        ScoringInput.role_title) = 0
    /\ ScoringResult = <<>>

====
